---- MODULE Spec2Model ----
(***************************************************************************)
(* The chunked category index of the grocery DNA (product_catalog          *)
(* coordinator zome): product groups are written as entries of an          *)
(* append-only log of actions, and found again through links from path     *)
(* nodes, each link tagged with the little-endian chunk id of its group.   *)
(*                                                                         *)
(* dht   the log of actions (Create of a ProductGroup entry, CreateLink,   *)
(*       DeleteLink); the hash of an action is its position in the log.    *)
(* last  the last zome call: its name, input, injected store failures and  *)
(*       return value.                                                     *)
(* faults  the number of store calls that have failed so far.              *)
(* inflight  the calls of create_product_batch under way, one per caller:  *)
(*       the store call each is at and what it holds so far.               *)
(***************************************************************************)
EXTENDS Integers, Sequences, FiniteSets, TLC

VARIABLES dht, last, faults, inflight

vars == <<dht, last, faults, inflight>>

(*************************** bounds of the model ***************************)

\* Most ProductGroup entries the log may hold (guards of the write calls).
MaxGroups == 3

\* Most ProductGroup entries of the log when store calls may fail.
MaxFaultyGroups == 2

\* Most store calls that fail in one behaviour.
MaxFaults == 2

\* Most links with a short tag the log may hold.
MaxForeign == 1

\* Most additional categorizations of an input of get_paths.
MaxAdditional == 2

\* usize is modelled UsizeBits wide (the wasm32 target has 32).
UsizeBits == 4

(**************************** program constants ****************************)

PRODUCTS_PER_GROUP == 100

BATCH_SIZE == 100

(******************************** values ***********************************)

\* Option<T>: None, Some(x).
None == <<>>

Some(x) == <<x>>

IsSome(o) == o # None

Unwrap(o) == o[1]

\* Option<String>::unwrap_or_default
UnwrapOrDefault(o) == IF IsSome(o) THEN Unwrap(o) ELSE ""

Min(a, b) == IF a <= b THEN a ELSE b

Max(a, b) == IF a >= b THEN a ELSE b

Range(s) == {s[i] : i \in DOMAIN s}

RECURSIVE Concat(_)
Concat(ss) == IF ss = <<>> THEN <<>> ELSE Head(ss) \o Concat(Tail(ss))

RECURSIVE SumSeq(_)
SumSeq(s) == IF s = <<>> THEN 0 ELSE Head(s) + SumSeq(Tail(s))

(********************************* paths ***********************************)

\* format!("categories/{}", main): a path string is kept as its segments.
MainPathStr(main) == <<"categories", main>>

\* format!("categories/{}/subcategories/{}", main, sub)
SubPathStr(main, sub) == <<"categories", main, "subcategories", sub>>

\* format!("categories/{}/subcategories/{}/types/{}", main, sub, type)
TypePathStr(main, sub, type) ==
    <<"categories", main, "subcategories", sub, "types", type>>

\* Path::path_entry_hash: the node of a path is determined by its string.
path_entry_hash(path) == path

\* The path of a categorization at each level it has (product.rs 24-49).
PrimaryPaths(input) ==
    <<MainPathStr(input.main_category)>>
    \o (IF IsSome(input.subcategory)
        THEN <<SubPathStr(input.main_category, Unwrap(input.subcategory))>>
             \o (IF IsSome(input.product_type)
                 THEN <<TypePathStr(input.main_category, Unwrap(input.subcategory),
                                    Unwrap(input.product_type))>>
                 ELSE <<>>)
        ELSE <<>>)

\* The paths of one additional categorization (product.rs 59-80).
AdditionalPaths(additional) ==
    <<MainPathStr(additional.main_category)>>
    \o (IF IsSome(additional.subcategory)
        THEN <<SubPathStr(additional.main_category, Unwrap(additional.subcategory))>>
             \o (IF IsSome(additional.product_type)
                 THEN <<TypePathStr(additional.main_category,
                                    Unwrap(additional.subcategory),
                                    Unwrap(additional.product_type))>>
                 ELSE <<>>)
        ELSE <<>>)

\* get_paths: the primary paths, then those of every additional
\* categorization in input order; nothing is deduplicated.
\* Paths of the primary categorization alone.
get_paths_primary(input) == PrimaryPaths(input)

\* A get_paths that leaves out a path it has already emitted.
get_paths_dedup(input) ==
    LET all == PrimaryPaths(input)
               \o Concat([i \in DOMAIN input.additional_categorizations |->
                            AdditionalPaths(input.additional_categorizations[i])])
        F[k \in 0..Len(all)] ==
            IF k = 0 THEN <<>>
            ELSE IF \E j \in 1..(k - 1) : all[j] = all[k] THEN F[k - 1]
                 ELSE Append(F[k - 1], all[k])
    IN F[Len(all)]

get_paths(input) ==
    PrimaryPaths(input)
    \o Concat([i \in DOMAIN input.additional_categorizations |->
                 AdditionalPaths(input.additional_categorizations[i])])

(******************************** the store ********************************)

\* LinkTag::new(chunk_id.to_le_bytes())
\* An encoding that keeps the lowest byte of the chunk id only.
to_le_bytes_low(chunk_id) == << chunk_id % 256, 0, 0, 0 >>

to_le_bytes(chunk_id) ==
    << chunk_id % 256, (chunk_id \div 256) % 256,
       (chunk_id \div 65536) % 256, (chunk_id \div 16777216) % 256 >>

\* A reading of the tag that puts a shorter tag after every chunk id.
chunk_id_of_tag_short_last(tag) ==
    IF Len(tag) >= 4
    THEN tag[1] + 256 * tag[2] + 65536 * tag[3] + 16777216 * tag[4]
    ELSE 2147483647

\* The chunk id read from a tag: u32::from_le_bytes of its first 4 bytes,
\* 0 for a shorter tag.
chunk_id_of_tag(tag) ==
    IF Len(tag) >= 4
    THEN tag[1] + 256 * tag[2] + 65536 * tag[3] + 16777216 * tag[4]
    ELSE 0

IsCreate(d, h) == h \in DOMAIN d /\ d[h].type = "Create"

IsCreateLink(d, h) == h \in DOMAIN d /\ d[h].type = "CreateLink"

IsLiveLink(d, h) ==
    /\ IsCreateLink(d, h)
    /\ \A j \in DOMAIN d : ~(d[j].type = "DeleteLink" /\ d[j].link_add_address = h)

\* get_links(base, LinkTypes::ProductTypeToGroup): the live links of the
\* node, in the order of their creation.
get_links(d, base) ==
    LET F[i \in 0..Len(d)] ==
            IF i = 0 THEN <<>>
            ELSE IF IsLiveLink(d, i) /\ d[i].base = base
                 THEN Append(F[i - 1], [create_link_hash |-> i,
                                        target |-> d[i].target,
                                        tag |-> d[i].tag])
                 ELSE F[i - 1]
    IN F[Len(d)]

\* create_entry(EntryTypes::ProductGroup(group)): the new log and the hash.
create_entry(d, group) ==
    [dht |-> Append(d, [type |-> "Create", entry |-> group]), hash |-> Len(d) + 1]

\* A store that keeps one link per node and tag: a link with the node and
\* the tag of an earlier one takes its place.
create_link_keyed(d, base, target, tag) ==
    LET same == {i \in DOMAIN d : /\ d[i].type = "CreateLink"
                                  /\ d[i].base = base
                                  /\ d[i].tag = tag}
        new == [type |-> "CreateLink", base |-> base, target |-> target, tag |-> tag]
    IN IF same = {} THEN Append(d, new)
       ELSE [d EXCEPT ![CHOOSE i \in same : TRUE] = new]

create_link(d, base, target, tag) ==
    Append(d, [type |-> "CreateLink", base |-> base, target |-> target, tag |-> tag])

delete_link(d, link_hash) ==
    Append(d, [type |-> "DeleteLink", link_add_address |-> link_hash])

\* get(hash): outcome is what the store answers: "ok" (the record, when the
\* hash has one), "none" (nothing found) or "err" (the call fails).
get(d, hash, outcome) ==
    IF outcome = "err" THEN [ok |-> FALSE, record |-> None]
    ELSE IF outcome = "ok" /\ hash \in DOMAIN d
         THEN [ok |-> TRUE, record |-> Some(hash)]
         ELSE [ok |-> TRUE, record |-> None]

\* record.entry().to_app_option::<ProductGroup>() / ProductGroup::try_from
IsProductGroup(d, hash) == IsCreate(d, hash)

GroupOf(d, hash) == d[hash].entry

GroupHashes(d) == {h \in DOMAIN d : IsCreate(d, h)}

\* A sort that puts a link before the links of equal chunk id.
sort_by_key_unstable(links) ==
    LET Insert(sorted, x) ==
            LET pos == Cardinality({k \in DOMAIN sorted :
                           chunk_id_of_tag(sorted[k].tag) < chunk_id_of_tag(x.tag)})
            IN SubSeq(sorted, 1, pos) \o <<x>> \o SubSeq(sorted, pos + 1, Len(sorted))
        F[i \in 0..Len(links)] ==
            IF i = 0 THEN <<>> ELSE Insert(F[i - 1], links[i])
    IN F[Len(links)]

\* A sort that leaves the links in the order of get_links.
sort_by_key_unsorted(links) == links

\* links.sort_by_key(chunk id of the tag): a stable sort, so links of equal
\* chunk id keep the order in which get_links returned them.
sort_by_key(links) ==
    LET Insert(sorted, x) ==
            LET pos == Cardinality({k \in DOMAIN sorted :
                           chunk_id_of_tag(sorted[k].tag) <= chunk_id_of_tag(x.tag)})
            IN SubSeq(sorted, 1, pos) \o <<x>> \o SubSeq(sorted, pos + 1, Len(sorted))
        F[i \in 0..Len(links)] ==
            IF i = 0 THEN <<>> ELSE Insert(F[i - 1], links[i])
    IN F[Len(links)]

(*************************** injected failures *****************************)

\* What the store answers to the calls made for one group (chunk):
\*   lookup           the first call of get_latest_group_for_path that does
\*                    not answer: "hash_err" (path_entry_hash), "links_err"
\*                    (get_links), "get_none" / "get_err" (get of the latest
\*                    group), or "ok";
\*   create_entry     "ok" or "err";
\*   path_hash_err    the positions, in the list of paths, whose
\*                    path_entry_hash fails in create_links_for_group;
\*   create_link_err  the positions whose create_link fails.
NoFault ==
    [lookup |-> "ok", create_entry |-> "ok", path_hash_err |-> {}, create_link_err |-> {}]

FaultCount(f) ==
    (IF f.lookup = "ok" THEN 0 ELSE 1) + (IF f.create_entry = "ok" THEN 0 ELSE 1)
    + Cardinality(f.path_hash_err) + Cardinality(f.create_link_err)

\* What the store answers to the batched get of concurrent_get_records:
\* fail_batch is the batch whose call fails (0: none), none the hashes for
\* which the answer holds no record.
NoFetchFault == [fail_batch |-> 0, none |-> {}]

(****************************** the index **********************************)

\* An indexing that gives up at the first path that fails.
create_links_for_group_abort(d, group_hash, paths, chunk_id, f) ==
    LET F[i \in 0..Len(paths)] ==
            IF i = 0 THEN d
            ELSE IF \E k \in 1..i : k \in f.path_hash_err \/ k \in f.create_link_err
                 THEN F[i - 1]
                 ELSE create_link(F[i - 1], path_entry_hash(paths[i]), group_hash,
                                  to_le_bytes(chunk_id))
    IN F[Len(paths)]

\* create_links_for_group: one link per path, each path on its own; a path
\* whose hash or whose create_link fails is counted and skipped. The
\* read-back after each create_link only logs. Returns the new log: the
\* function itself always returns Ok(()).
create_links_for_group(d, group_hash, paths, chunk_id, f) ==
    LET F[i \in 0..Len(paths)] ==
            IF i = 0 THEN d
            ELSE IF i \in f.path_hash_err \/ i \in f.create_link_err
                 THEN F[i - 1]
                 ELSE create_link(F[i - 1], path_entry_hash(paths[i]), group_hash,
                                  to_le_bytes(chunk_id))
    IN F[Len(paths)]

\* A create_product_group that takes a group without products.
create_product_group_unchecked(d, input, f) ==
    LET e == create_entry(d, [category |-> input.category,
                              subcategory |-> input.subcategory,
                              product_type |-> input.product_type,
                              products |-> input.products,
                              chunk_id |-> input.chunk_id])
    IN IF f.create_entry = "err"
       THEN [ok |-> FALSE, error |-> "store", hash |-> 0, dht |-> d]
       ELSE [ok |-> TRUE, error |-> "", hash |-> e.hash,
             dht |-> create_links_for_group(
                         e.dht, e.hash,
                         get_paths([product |-> 0,
                                    main_category |-> input.category,
                                    subcategory |-> input.subcategory,
                                    product_type |-> input.product_type,
                                    additional_categorizations |->
                                        input.additional_categorizations]),
                         input.chunk_id, f)]

\* create_product_group: the entry first, then the paths of the input's
\* categorizations, then the links. The value returned is Ok(hash) or
\* Err(error): the numbers of links made and failed are logged only.
create_product_group(d, input, f) ==
    LET product_group == [category |-> input.category,
                          subcategory |-> input.subcategory,
                          product_type |-> input.product_type,
                          products |-> input.products,
                          chunk_id |-> input.chunk_id]
        e == create_entry(d, product_group)
    IN IF f.create_entry = "err"
       THEN [ok |-> FALSE, error |-> "store", hash |-> 0, dht |-> d]
       ELSE IF input.products = <<>>
       THEN [ok |-> FALSE, error |-> "Product group is empty", hash |-> 0,
             dht |-> e.dht]
       ELSE LET mock_input ==
                    [product |-> Head(input.products),
                     main_category |-> input.category,
                     subcategory |-> input.subcategory,
                     product_type |-> input.product_type,
                     additional_categorizations |-> input.additional_categorizations]
            IN [ok |-> TRUE, error |-> "", hash |-> e.hash,
                dht |-> create_links_for_group(e.dht, e.hash, get_paths(mock_input),
                                               product_group.chunk_id, f)]

\* get_latest_group_for_path: Ok(Some(hash, chunk id)) of the link with the
\* highest chunk id among the links whose tag has at least 4 bytes (the
\* first one on a tie), when its group can be fetched and is a
\* ProductGroup; Ok(None) when the path has no such link, when the group
\* cannot be found or read, or when the hash of the path fails; Err when
\* get_links or get fails. (The group returned with the hash is not used
\* by the caller.)
get_latest_group_for_path(d, path, lookup) ==
    LET Latest(links) ==
            LET F[i \in 0..Len(links)] ==
                    IF i = 0 THEN None
                    ELSE IF Len(links[i].tag) >= 4
                            /\ (F[i - 1] = None
                                \/ chunk_id_of_tag(links[i].tag)
                                     > chunk_id_of_tag(Unwrap(F[i - 1]).tag))
                         THEN Some(links[i])
                         ELSE F[i - 1]
            IN F[Len(links)]
        Fetched(latest_link, got) ==
            IF ~got.ok THEN [ok |-> FALSE, value |-> None]
            ELSE IF IsSome(got.record) /\ IsProductGroup(d, Unwrap(got.record))
                 THEN [ok |-> TRUE,
                       value |-> Some([hash |-> latest_link.target,
                                       chunk_id |-> chunk_id_of_tag(latest_link.tag)])]
                 ELSE [ok |-> TRUE, value |-> None]
        Found(latest_link) ==
            IF latest_link = None THEN [ok |-> TRUE, value |-> None]
            ELSE Fetched(Unwrap(latest_link),
                         get(d, Unwrap(latest_link).target,
                             CASE lookup = "get_none" -> "none"
                               [] lookup = "get_err" -> "err"
                               [] OTHER -> "ok"))
        Listed(links) ==
            IF links = <<>> THEN [ok |-> TRUE, value |-> None]
            ELSE Found(Latest(links))
    IN IF lookup = "hash_err" THEN [ok |-> TRUE, value |-> None]
       ELSE IF lookup = "links_err" THEN [ok |-> FALSE, value |-> None]
       ELSE Listed(get_links(d, path_entry_hash(path)))

\* A next chunk id that is 1 when the lookup fails.
next_chunk_id_after_error(latest_group_info_res) ==
    IF latest_group_info_res.ok /\ IsSome(latest_group_info_res.value)
    THEN Unwrap(latest_group_info_res.value).chunk_id + 1
    ELSE IF latest_group_info_res.ok THEN 0 ELSE 1

\* A next chunk id that skips one: last + 2.
next_chunk_id_skip(latest_group_info_res) ==
    IF latest_group_info_res.ok /\ IsSome(latest_group_info_res.value)
    THEN Unwrap(latest_group_info_res.value).chunk_id + 2
    ELSE 0

\* A next chunk id that repeats the last one.
next_chunk_id_repeat(latest_group_info_res) ==
    IF latest_group_info_res.ok /\ IsSome(latest_group_info_res.value)
    THEN Unwrap(latest_group_info_res.value).chunk_id
    ELSE 0

\* The next chunk id (product.rs 563-574): last + 1, or 0 when the lookup
\* found no group or failed.
next_chunk_id(latest_group_info_res) ==
    IF latest_group_info_res.ok /\ IsSome(latest_group_info_res.value)
    THEN Unwrap(latest_group_info_res.value).chunk_id + 1
    ELSE 0

\* concurrent_get_records: the hashes are fetched BATCH_SIZE at a time; a
\* failing call fails the whole, a hash without a record is left out.
concurrent_get_records(d, hashes, fetch) ==
    LET nb == (Len(hashes) + BATCH_SIZE - 1) \div BATCH_SIZE
        found == [i \in 0..Len(hashes) |->
                    IF i = 0 THEN <<>>
                    ELSE IF hashes[i] \in DOMAIN d /\ hashes[i] \notin fetch.none
                         THEN <<hashes[i]>> ELSE <<>>]
        All[i \in 0..Len(hashes)] ==
            IF i = 0 THEN <<>> ELSE All[i - 1] \o found[i]
    IN IF fetch.fail_batch \in 1..nb
       THEN [ok |-> FALSE, records |-> <<>>]
       ELSE [ok |-> TRUE, records |-> All[Len(hashes)]]

(************************** create_product_batch ***************************)

\* The normalisation of one input (product.rs 412-435): an empty string
\* is no subcategory and no product type, and the product's own category
\* fields are set to those of the input.
normalize_input(product_input) ==
    LET sub == IF product_input.subcategory = Some("") THEN None
               ELSE product_input.subcategory
        type == IF product_input.product_type = Some("") THEN None
                ELSE product_input.product_type
        p0 == product_input.product
        p1 == [p0 EXCEPT !.subcategory = IF @ = Some("") THEN None ELSE @,
                         !.product_type = IF @ = Some("") THEN None ELSE @]
        p2 == [p1 EXCEPT !.category = IF @ # product_input.main_category
                                      THEN product_input.main_category ELSE @,
                         !.subcategory = IF @ # sub THEN sub ELSE @,
                         !.product_type = IF @ # type THEN type ELSE @]
    IN [product_input EXCEPT !.subcategory = sub, !.product_type = type, !.product = p2]

\* format!("{}||{}||{}", category, subcategory or "", product type or ""):
\* the key of the primary categorization, kept as its three parts.
group_key(product_input) ==
    << product_input.main_category,
       UnwrapOrDefault(product_input.subcategory),
       UnwrapOrDefault(product_input.product_type) >>

\* key.split("||"): the categorization read back from a key (product.rs
\* 464-468).
key_category(key) == key[1]

key_subcategory(key) == IF key[2] = "" THEN None ELSE Some(key[2])

key_product_type(key) == IF key[3] = "" THEN None ELSE Some(key[3])

\* grouped_products: the normalised inputs of each key, in input order.
grouped_products(products) ==
    LET norm == [i \in DOMAIN products |-> normalize_input(products[i])]
    IN [key \in {group_key(norm[i]) : i \in DOMAIN norm} |->
          SelectSeq(norm, LAMBDA x : group_key(x) = key)]

\* A key with a product type and no subcategory has no path: its group is
\* skipped (product.rs 506-510).
key_has_path(key) == ~(key_subcategory(key) = None /\ key_product_type(key) # None)

\* The specific path of a key (product.rs 502-511).
specific_path(key) ==
    IF key_subcategory(key) # None /\ key_product_type(key) # None
    THEN TypePathStr(key_category(key), Unwrap(key_subcategory(key)),
                     Unwrap(key_product_type(key)))
    ELSE IF key_subcategory(key) # None
    THEN SubPathStr(key_category(key), Unwrap(key_subcategory(key)))
    ELSE MainPathStr(key_category(key))

\* slice.chunks(PRODUCTS_PER_GROUP)
num_chunks(n) == (n + PRODUCTS_PER_GROUP - 1) \div PRODUCTS_PER_GROUP

\* A chunk that takes one input more than PRODUCTS_PER_GROUP.
chunk_long(s, k) ==
    SubSeq(s, (k - 1) * PRODUCTS_PER_GROUP + 1, Min(k * PRODUCTS_PER_GROUP + 1, Len(s)))

chunk(s, k) ==
    SubSeq(s, (k - 1) * PRODUCTS_PER_GROUP + 1, Min(k * PRODUCTS_PER_GROUP, Len(s)))

\* A turn that gives up once a chunk of the call has failed.
process_chunk_stop(st, key, product_chunk_inputs, f) ==
    LET latest == get_latest_group_for_path(st.dht, specific_path(key), f.lookup)
        group_input ==
            [category |-> key_category(key),
             subcategory |-> key_subcategory(key),
             product_type |-> key_product_type(key),
             products |-> [i \in DOMAIN product_chunk_inputs |->
                             [product_chunk_inputs[i].product EXCEPT
                                 !.category = key_category(key),
                                 !.subcategory = key_subcategory(key),
                                 !.product_type = key_product_type(key)]],
             chunk_id |-> next_chunk_id(latest),
             additional_categorizations |->
                 Head(product_chunk_inputs).additional_categorizations]
        Matched(r) ==
            [dht |-> r.dht,
             all_group_hashes |-> IF r.ok THEN Append(st.all_group_hashes, r.hash)
                                  ELSE st.all_group_hashes,
             failed |-> IF r.ok THEN st.failed
                        ELSE st.failed + Len(product_chunk_inputs),
             n |-> st.n + 1]
    IN IF st.failed > 0 THEN [st EXCEPT !.n = st.n + 1]
       ELSE Matched(create_product_group(st.dht, group_input, f))

\* One turn of the loop over the chunks of a key (product.rs 534-642):
\* the next chunk id from the links of the specific path, the products
\* with the category fields of the group, the additional categorizations
\* of the first input of the chunk, and create_product_group.
\* st = [dht, all_group_hashes, failed, n]: n counts the chunks so far.
process_chunk(st, key, product_chunk_inputs, f) ==
    LET latest == get_latest_group_for_path(st.dht, specific_path(key), f.lookup)
        products_for_group ==
            [i \in DOMAIN product_chunk_inputs |->
               [product_chunk_inputs[i].product EXCEPT
                   !.category = key_category(key),
                   !.subcategory = key_subcategory(key),
                   !.product_type = key_product_type(key)]]
        group_input ==
            [category |-> key_category(key),
             subcategory |-> key_subcategory(key),
             product_type |-> key_product_type(key),
             products |-> products_for_group,
             chunk_id |-> next_chunk_id(latest),
             additional_categorizations |->
                 Head(product_chunk_inputs).additional_categorizations]
        Matched(r) ==
            [dht |-> r.dht,
             all_group_hashes |-> IF r.ok THEN Append(st.all_group_hashes, r.hash)
                                  ELSE st.all_group_hashes,
             failed |-> IF r.ok THEN st.failed
                        ELSE st.failed + Len(product_chunk_inputs),
             n |-> st.n + 1]
    IN Matched(create_product_group(st.dht, group_input, f))

\* The input of create_product_group for a chunk (product.rs 583-604): the
\* products with the category fields of the key, the additional
\* categorizations of the first input of the chunk.
chunk_group_input(key, product_chunk_inputs, chunk_id) ==
    [category |-> key_category(key),
     subcategory |-> key_subcategory(key),
     product_type |-> key_product_type(key),
     products |-> [i \in DOMAIN product_chunk_inputs |->
                     [product_chunk_inputs[i].product EXCEPT
                         !.category = key_category(key),
                         !.subcategory = key_subcategory(key),
                         !.product_type = key_product_type(key)]],
     chunk_id |-> chunk_id,
     additional_categorizations |->
         Head(product_chunk_inputs).additional_categorizations]

\* The chunks of one key, in order; plan[n] is what the store answers for
\* the n-th chunk of the call.
process_key(st, key, group_products_inputs, plan) ==
    LET Turn(prev, k) ==
            process_chunk(prev, key, chunk(group_products_inputs, k), plan[prev.n + 1])
        F[k \in 0..num_chunks(Len(group_products_inputs))] ==
            IF k = 0 THEN st ELSE Turn(F[k - 1], k)
    IN IF key_has_path(key) THEN F[num_chunks(Len(group_products_inputs))] ELSE st

\* The number of chunks a call works through.
total_chunks(products) ==
    LET g == grouped_products(products)
        keys == {key \in DOMAIN g : key_has_path(key)}
        RECURSIVE Sum(_)
        Sum(ks) == IF ks = {} THEN 0
                   ELSE LET key == CHOOSE x \in ks : TRUE
                        IN num_chunks(Len(g[key])) + Sum(ks \ {key})
    IN Sum(keys)

\* create_product_batch: order is the order in which the HashMap hands
\* out the keys. The result is that of concurrent_get_records over the
\* hashes of the groups created; failed is the logged count of the
\* products of failed chunks.
create_product_batch(d, products, order, plan, fetch) ==
    LET g == grouped_products(products)
        F[k \in 0..Len(order)] ==
            IF k = 0 THEN [dht |-> d, all_group_hashes |-> <<>>, failed |-> 0, n |-> 0]
            ELSE process_key(F[k - 1], order[k], g[order[k]], plan)
        Fetched(st, r) ==
            [dht |-> st.dht, ok |-> r.ok, records |-> r.records,
             all_group_hashes |-> st.all_group_hashes, failed |-> st.failed]
        Fetch(st) ==
            Fetched(st, concurrent_get_records(st.dht, st.all_group_hashes, fetch))
    IN IF products = <<>>
       THEN [dht |-> d, ok |-> TRUE, records |-> <<>>, all_group_hashes |-> <<>>,
             failed |-> 0]
       ELSE Fetch(F[Len(order)])

(*********************** recategorize_product_group ************************)

\* What the store answers to the calls of one recategorize_product_group:
\* get of the group, the hash and the get_links of each old path (by
\* position), each delete_link (by position in the list of links to
\* delete), create_entry, and the calls of create_links_for_group.
NoRecatFault ==
    [get |-> "ok", old_hash_err |-> {}, old_links_err |-> {}, delete_err |-> {},
     create_entry |-> "ok", path_hash_err |-> {}, create_link_err |-> {}]

RecatFaultCount(f) ==
    (IF f.get = "ok" THEN 0 ELSE 1) + (IF f.create_entry = "ok" THEN 0 ELSE 1)
    + Cardinality(f.old_hash_err) + Cardinality(f.old_links_err)
    + Cardinality(f.delete_err)
    + Cardinality(f.path_hash_err) + Cardinality(f.create_link_err)

\* Old paths that are the paths the links of the group were made at.
old_paths_levels(product_group) ==
    <<MainPathStr(product_group.category)>>
    \o (IF IsSome(product_group.subcategory)
        THEN <<SubPathStr(product_group.category,
                          Unwrap(product_group.subcategory))>>
             \o (IF IsSome(product_group.product_type)
                 THEN <<TypePathStr(product_group.category,
                                    Unwrap(product_group.subcategory),
                                    Unwrap(product_group.product_type))>>
                 ELSE <<>>)
        ELSE <<>>)

\* The old paths of a group (product.rs 711-752): the path of each level of
\* its stored categorization, each with the segment chunk_1 appended.
old_paths(product_group) ==
    <<Append(MainPathStr(product_group.category), "chunk_1")>>
    \o (IF IsSome(product_group.subcategory)
        THEN <<Append(SubPathStr(product_group.category,
                                 Unwrap(product_group.subcategory)), "chunk_1")>>
             \o (IF IsSome(product_group.product_type)
                 THEN <<Append(TypePathStr(product_group.category,
                                           Unwrap(product_group.subcategory),
                                           Unwrap(product_group.product_type)),
                               "chunk_1")>>
                 ELSE <<>>)
        ELSE <<>>)

\* The links to delete (product.rs 755-783): of each old path whose hash
\* and get_links answer, the links whose target is the group.
old_links_to_delete(d, paths, group_hash, f) ==
    LET matching(i) ==
            LET links == get_links(d, path_entry_hash(paths[i]))
                M[k \in 0..Len(links)] ==
                    IF k = 0 THEN <<>>
                    ELSE IF links[k].target = group_hash
                         THEN Append(M[k - 1], links[k].create_link_hash)
                         ELSE M[k - 1]
            IN M[Len(links)]
        F[i \in 0..Len(paths)] ==
            IF i = 0 THEN <<>>
            ELSE IF i \in f.old_hash_err \/ i \in f.old_links_err THEN F[i - 1]
                 ELSE F[i - 1] \o matching(i)
    IN F[Len(paths)]

\* Delete all old links found (product.rs 785-800): a failed deletion is
\* counted and passed over.
delete_old_links(d, to_delete, f) ==
    LET F[k \in 0..Len(to_delete)] ==
            IF k = 0 THEN d
            ELSE IF k \in f.delete_err THEN F[k - 1]
                 ELSE delete_link(F[k - 1], to_delete[k])
    IN F[Len(to_delete)]

\* A new group whose chunk id starts again at 0.
updated_group_entry_rechunked(product_group, input) ==
    [category |-> input.new_category,
     subcategory |-> input.new_subcategory,
     product_type |-> input.new_product_type,
     products |-> [i \in DOMAIN product_group.products |->
                     [product_group.products[i] EXCEPT
                         !.category = input.new_category,
                         !.subcategory = input.new_subcategory,
                         !.product_type = input.new_product_type]],
     chunk_id |-> 0]

\* A new group that holds the products of the original in reverse order.
updated_group_entry_reversed(product_group, input) ==
    [category |-> input.new_category,
     subcategory |-> input.new_subcategory,
     product_type |-> input.new_product_type,
     products |-> [i \in DOMAIN product_group.products |->
                     [product_group.products[Len(product_group.products) + 1 - i]
                         EXCEPT !.category = input.new_category,
                                !.subcategory = input.new_subcategory,
                                !.product_type = input.new_product_type]],
     chunk_id |-> product_group.chunk_id]

\* The new group (product.rs 803-834): the products with the category
\* fields of the new categorization, the chunk id of the original group.
updated_group_entry(product_group, input) ==
    [category |-> input.new_category,
     subcategory |-> input.new_subcategory,
     product_type |-> input.new_product_type,
     products |-> [i \in DOMAIN product_group.products |->
                     [product_group.products[i] EXCEPT
                         !.category = input.new_category,
                         !.subcategory = input.new_subcategory,
                         !.product_type = input.new_product_type]],
     chunk_id |-> product_group.chunk_id]

\* A recategorization that rewrites the record of the group in place.
recategorize_product_group_in_place(d, input, f) ==
    IF f.get # "ok" \/ ~IsCreate(d, input.group_hash)
    THEN [dht |-> d, ok |-> FALSE, error |-> "Group not found", new_group_hash |-> 0]
    ELSE [dht |-> [d EXCEPT ![input.group_hash].entry =
                       updated_group_entry(d[input.group_hash].entry, input)],
          ok |-> TRUE, error |-> "", new_group_hash |-> input.group_hash]

\* A recategorization that links the new category to the original group.
recategorize_product_group_relink(d, input, f) ==
    IF f.get # "ok" \/ ~IsCreate(d, input.group_hash)
    THEN [dht |-> d, ok |-> FALSE, error |-> "Group not found", new_group_hash |-> 0]
    ELSE LET product_group == GroupOf(d, input.group_hash)
             d1 == delete_old_links(
                       d, old_links_to_delete(d, old_paths(product_group),
                                              input.group_hash, f), f)
             e == create_entry(d1, updated_group_entry(product_group, input))
         IN [dht |-> create_link(e.dht,
                                 path_entry_hash(MainPathStr(input.new_category)),
                                 input.group_hash,
                                 to_le_bytes(product_group.chunk_id)),
             ok |-> TRUE, error |-> "", new_group_hash |-> e.hash]

\* recategorize_product_group. input = [group_hash, new_category,
\* new_subcategory, new_product_type]. Returns the new log, Ok(()) or the
\* error, and the hash of the new group (logged, 0 when none was written).
recategorize_product_group(d, input, f) ==
    LET got == get(d, input.group_hash, f.get)
        product_group == GroupOf(d, input.group_hash)
        chunk_id == product_group.chunk_id
        mock_input ==
            [product |-> Head(product_group.products),
             main_category |-> input.new_category,
             subcategory |-> input.new_subcategory,
             product_type |-> input.new_product_type,
             additional_categorizations |-> <<>>]
        Created(e) ==
            [dht |-> create_links_for_group(e.dht, e.hash, get_paths(mock_input),
                                            chunk_id, f),
             ok |-> TRUE, error |-> "", new_group_hash |-> e.hash]
        Deleted(d1) ==
            IF product_group.products = <<>>
            THEN [dht |-> d1, ok |-> FALSE, error |-> "Product group is empty",
                  new_group_hash |-> 0]
            ELSE IF f.create_entry = "err"
            THEN [dht |-> d1, ok |-> FALSE, error |-> "store", new_group_hash |-> 0]
            ELSE Created(create_entry(d1, updated_group_entry(product_group, input)))
    IN IF ~got.ok
       THEN [dht |-> d, ok |-> FALSE, error |-> "store", new_group_hash |-> 0]
       ELSE IF got.record = None
       THEN [dht |-> d, ok |-> FALSE, error |-> "Group not found", new_group_hash |-> 0]
       ELSE IF ~IsProductGroup(d, input.group_hash)
       THEN [dht |-> d, ok |-> FALSE, error |-> "Failed to deserialize ProductGroup",
             new_group_hash |-> 0]
       ELSE Deleted(delete_old_links(
                d, old_links_to_delete(d, old_paths(product_group),
                                       input.group_hash, f), f))

(********************************* reads ***********************************)

UsizeMax == 2 ^ UsizeBits - 1

\* The path of a read (products_by_category.rs 54-70, product.rs 981-997);
\* None for a product type without a subcategory.
base_path(params) ==
    IF IsSome(params.subcategory) /\ IsSome(params.product_type)
    THEN Some(TypePathStr(params.category, Unwrap(params.subcategory),
                          Unwrap(params.product_type)))
    ELSE IF IsSome(params.subcategory)
    THEN Some(SubPathStr(params.category, Unwrap(params.subcategory)))
    ELSE IF params.product_type = None
    THEN Some(MainPathStr(params.category))
    ELSE None

\* A page that is one link too long.
skip_take_long(s, offset, limit) ==
    SubSeq(s, offset + 1, Min(offset + limit + 1, Len(s)))

\* all_links.into_iter().skip(offset).take(limit)
skip_take(s, offset, limit) ==
    SubSeq(s, offset + 1, Min(offset + limit, Len(s)))

\* The products of the records that read as a ProductGroup, summed.
count_products(d, records) ==
    SumSeq([i \in DOMAIN records |->
              IF IsProductGroup(d, records[i]) THEN Len(GroupOf(d, records[i]).products)
              ELSE 0])

\* get_products_by_category. links_ok: whether get_links answers; wraps:
\* whether the build lets offset + limit wrap around (a build with
\* overflow checks panics instead, which fails the call).
get_products_by_category(d, params, links_ok, fetch, wraps) ==
    LET sum == params.offset + params.limit
        failed == [ok |-> FALSE, product_groups |-> <<>>, total_groups |-> 0,
                   total_products |-> 0, has_more |-> FALSE]
        Fetched(total_groups, r) ==
            IF ~r.ok THEN failed
            ELSE IF sum > UsizeMax /\ ~wraps THEN failed
            ELSE [ok |-> TRUE,
                  product_groups |-> r.records,
                  total_groups |-> total_groups,
                  total_products |-> count_products(d, r.records),
                  has_more |-> (sum % (UsizeMax + 1)) < total_groups]
        Paginated(total_groups, paginated_links) ==
            Fetched(total_groups,
                    concurrent_get_records(
                        d, [i \in DOMAIN paginated_links |-> paginated_links[i].target],
                        fetch))
        Listed(all_links) ==
            Paginated(Len(all_links),
                      skip_take(sort_by_key(all_links), params.offset, params.limit))
    IN IF base_path(params) = None THEN failed
       ELSE IF ~links_ok THEN failed
       ELSE Listed(get_links(d, path_entry_hash(Unwrap(base_path(params)))))

\* get_product_count_for_group: the products of the group whose link is at
\* position offset of the links sorted by chunk id; got is what the store
\* answers to the get of that group. Ok(0) when get_links fails, when the
\* position holds no link and when the record is not found or is not a
\* ProductGroup.
get_product_count_for_group(d, params, links_ok, got) ==
    LET Counted(r) ==
            IF ~r.ok THEN [ok |-> FALSE, count |-> 0]
            ELSE IF IsSome(r.record) /\ IsProductGroup(d, Unwrap(r.record))
                 THEN [ok |-> TRUE, count |-> Len(GroupOf(d, Unwrap(r.record)).products)]
                 ELSE [ok |-> TRUE, count |-> 0]
        Sorted(all_links) ==
            IF params.offset + 1 \in DOMAIN all_links
            THEN Counted(get(d, all_links[params.offset + 1].target, got))
            ELSE [ok |-> TRUE, count |-> 0]
    IN IF base_path(params) = None \/ ~links_ok THEN [ok |-> TRUE, count |-> 0]
       ELSE Sorted(sort_by_key(get_links(d, path_entry_hash(Unwrap(base_path(params))))))

\* get_all_category_products: the records of the targets of the links of
\* categories/<category>, in the order of get_links, fetched by
\* concurrent_get_records.
get_all_category_products(d, category, links_ok, fetch) ==
    LET failed == [ok |-> FALSE, product_groups |-> <<>>, total_groups |-> 0,
                   total_products |-> 0, has_more |-> FALSE]
        Fetched(total_groups, r) ==
            IF ~r.ok THEN failed
            ELSE [ok |-> TRUE, product_groups |-> r.records,
                  total_groups |-> total_groups,
                  total_products |-> count_products(d, r.records),
                  has_more |-> FALSE]
        Listed(links) ==
            Fetched(Len(links),
                    concurrent_get_records(
                        d, [i \in DOMAIN links |-> links[i].target], fetch))
    IN IF ~links_ok THEN failed
       ELSE Listed(get_links(d, path_entry_hash(MainPathStr(category))))

\* A count that gives up at the first group it cannot fetch or read.
get_all_group_counts_strict(d, params, links_ok, gets) ==
    LET all_links == sort_by_key(get_links(d, path_entry_hash(Unwrap(base_path(params)))))
        Read(i) == get(d, all_links[i].target, gets[i])
        Good(i) == Read(i).ok /\ IsSome(Read(i).record)
                   /\ IsProductGroup(d, Unwrap(Read(i).record))
    IN IF base_path(params) = None \/ ~links_ok
       THEN [ok |-> FALSE, counts |-> <<>>]
       ELSE IF \E i \in DOMAIN all_links : ~Good(i)
       THEN [ok |-> FALSE, counts |-> <<>>]
       ELSE [ok |-> TRUE,
             counts |-> [i \in DOMAIN all_links |->
                           Len(GroupOf(d, all_links[i].target).products)]]

\* A count of the groups of the path in place of their products.
get_all_group_counts_of_groups(d, params, links_ok, gets) ==
    IF base_path(params) = None \/ ~links_ok
    THEN [ok |-> FALSE, counts |-> <<>>]
    ELSE [ok |-> TRUE,
          counts |-> [i \in 1..Len(get_links(d, path_entry_hash(Unwrap(base_path(params)))))
                        |-> 1]]

\* get_all_group_counts_for_path: the links sorted by chunk id, one get
\* per link; gets[i] is what the store answers for the i-th link. A group
\* that cannot be fetched or read is passed over.
get_all_group_counts_for_path(d, params, links_ok, gets) ==
    LET Counted(all_links) ==
            LET F[i \in 0..Len(all_links)] ==
                    IF i = 0 THEN <<>>
                    ELSE LET got == get(d, all_links[i].target, gets[i])
                         IN IF got.ok /\ IsSome(got.record)
                               /\ IsProductGroup(d, Unwrap(got.record))
                            THEN Append(F[i - 1],
                                        Len(GroupOf(d, Unwrap(got.record)).products))
                            ELSE F[i - 1]
            IN [ok |-> TRUE, counts |-> F[Len(all_links)]]
    IN IF base_path(params) = None \/ ~links_ok
       THEN [ok |-> FALSE, counts |-> <<>>]
       ELSE Counted(sort_by_key(get_links(d, path_entry_hash(Unwrap(base_path(params))))))

\* A single-group fetch that answers a hash without a record, or a record
\* that is no ProductGroup, with no products.
extract_products_from_group_empty(d, group_hash, outcome) ==
    IF outcome = "err"
    THEN [ok |-> FALSE, error |-> "store", products |-> <<>>]
    ELSE IF outcome = "ok" /\ IsCreate(d, group_hash)
    THEN [ok |-> TRUE, error |-> "", products |-> d[group_hash].entry.products]
    ELSE [ok |-> TRUE, error |-> "", products |-> <<>>]

\* extract_products_from_group (products_by_category.rs 345-371): the
\* products of the group of a hash; outcome is what the store answers to
\* the get.
extract_products_from_group(d, group_hash, outcome) ==
    LET got == get(d, group_hash, outcome)
    IN IF ~got.ok THEN [ok |-> FALSE, error |-> "store", products |-> <<>>]
       ELSE IF got.record = None
       THEN [ok |-> FALSE, error |-> "Group not found", products |-> <<>>]
       ELSE IF ~IsProductGroup(d, Unwrap(got.record))
       THEN [ok |-> FALSE, error |-> "Failed to deserialize ProductGroup",
             products |-> <<>>]
       ELSE [ok |-> TRUE, error |-> "",
             products |-> GroupOf(d, Unwrap(got.record)).products]

\* get_paginated_products_from_group (products_by_category.rs 389-434):
\* the products of the group from offset on, at most limit of them; the
\* sum offset + limit is a usize.
get_paginated_products_from_group(d, params, outcome) ==
    LET got == get(d, params.group_hash, outcome)
        Failed(error) ==
            [ok |-> FALSE, error |-> error, products |-> <<>>, total |-> 0,
             has_more |-> FALSE]
        Page(products) ==
            [ok |-> TRUE, error |-> "",
             products |-> skip_take(products, params.offset, params.limit),
             total |-> Len(products),
             has_more |-> ((params.offset + params.limit) % (UsizeMax + 1))
                              < Len(products)]
    IN IF ~got.ok THEN Failed("store")
       ELSE IF got.record = None THEN Failed("Group not found")
       ELSE IF ~IsProductGroup(d, Unwrap(got.record))
       THEN Failed("Failed to deserialize ProductGroup")
       ELSE Page(GroupOf(d, Unwrap(got.record)).products)

(********************************* search **********************************)

\* get_records_from_hashes (search.rs 102-141): one batched get (the batch
\* holds 1000 hashes); a failing call fails the whole, a hash without a
\* record is left out.
get_records_from_hashes(d, hashes, get_ok) ==
    IF ~get_ok THEN [ok |-> FALSE, records |-> <<>>]
    ELSE [ok |-> TRUE,
          records |-> SelectSeq(hashes, LAMBDA h : h \in DOMAIN d)]

\* group_map: the indices asked of each group hash, one key per distinct
\* hash of the references (search.rs 29-37).
group_map(references) ==
    [h \in {references[i].group_hash : i \in DOMAIN references} |->
        LET picked == SelectSeq(references, LAMBDA r : r.group_hash = h)
        IN [i \in DOMAIN picked |-> picked[i].index]]

\* A lookup that fetches the group of every reference on its own.
get_products_by_references_each(d, references, order, get_ok) ==
    LET hashes == [i \in DOMAIN references |-> references[i].group_hash]
        of_reference(i) ==
            IF IsCreate(d, hashes[i]) /\ references[i].index < Len(d[hashes[i]].entry.products)
            THEN <<hashes[i]>> ELSE <<>>
        products == Concat([i \in DOMAIN references |-> of_reference(i)])
    IN IF ~get_ok
       THEN [ok |-> FALSE, error |-> "store", products |-> <<>>, total |-> 0,
             fetched |-> hashes]
       ELSE [ok |-> TRUE, error |-> "", products |-> products,
             total |-> Len(products), fetched |-> hashes]

\* get_products_by_references: the keys of group_map, in the order in
\* which the HashMap hands them out, are fetched by one call of
\* get_records_from_hashes, and for each index of a fetched group within
\* its products the record of the group is returned; an index beyond
\* them is passed over. fetched: the hashes handed to the store.
get_products_by_references(d, references, order, get_ok) ==
    LET indices == group_map(references)
        group_hashes == SelectSeq(order, LAMBDA h : h \in DOMAIN indices)
        of_record(h) ==
            IF IsProductGroup(d, h)
            THEN LET within == SelectSeq(indices[h],
                                   LAMBDA index : index < Len(GroupOf(d, h).products))
                 IN [i \in DOMAIN within |-> h]
            ELSE <<>>
        Extracted(product_records) ==
            [ok |-> TRUE, error |-> "", products |-> product_records,
             total |-> Len(product_records), fetched |-> group_hashes]
        Got(r) ==
            IF ~r.ok
            THEN [ok |-> FALSE, error |-> "store", products |-> <<>>, total |-> 0,
                  fetched |-> group_hashes]
            ELSE Extracted(Concat([i \in DOMAIN r.records |-> of_record(r.records[i])]))
    IN IF references = <<>>
       THEN [ok |-> TRUE, error |-> "", products |-> <<>>, total |-> 0,
             fetched |-> <<>>]
       ELSE Got(get_records_from_hashes(d, group_hashes, get_ok))

(******************************** inputs ***********************************)

Categories == {"Produce", "Snacks"}

\* The levels of a primary categorization: subcategory and product type.
Levels == {<<None, None>>, <<Some("Fruit"), None>>, <<Some("Fruit"), Some("Apples")>>}

Categorization(main, sub, type) ==
    [main_category |-> main, subcategory |-> sub, product_type |-> type]

\* No additional categorization, one in another category, one that is the
\* main category of the primary categorization.
AdditionalLists ==
    { <<>>, <<Categorization("Snacks", None, None)>>,
            <<Categorization("Produce", None, None)>> }

\* The categorization part of a CreateProductInput.
InputShapes ==
    {shape \in [main_category : {"Produce"}, subcategory : {lv[1] : lv \in Levels},
                product_type : {lv[2] : lv \in Levels},
                additional_categorizations : AdditionalLists] :
        /\ <<shape.subcategory, shape.product_type>> \in Levels
        /\ shape.product_type # None => shape.additional_categorizations = <<>>}

\* A CreateProductInput: the product is the name-th of its batch; its own
\* category fields are what the client filled in.
ProductInput(shape, name) ==
    [product |-> [name |-> name, category |-> "Produce",
                  subcategory |-> Some(""), product_type |-> None],
     main_category |-> shape.main_category,
     subcategory |-> shape.subcategory,
     product_type |-> shape.product_type,
     additional_categorizations |-> shape.additional_categorizations]

\* Batches of one input.
SingleBatches == {<<ProductInput(shape, 1)>> : shape \in InputShapes}

\* Batches of one input without a product type.
ShallowBatches == {b \in SingleBatches : b[1].product_type = None}

\* Batches of PRODUCTS_PER_GROUP + 1 inputs of one categorization.
BigBatches ==
    {[i \in 1..(PRODUCTS_PER_GROUP + 1) |-> ProductInput(shape, i)] :
        shape \in {x \in InputShapes : x.additional_categorizations = <<>>}}

\* Batches of one input for each level of a categorization, in one of two
\* orders, and batches of two of these inputs: two or three groups a call.
LevelBatches ==
    LET top == ProductInput([main_category |-> "Produce", subcategory |-> None,
                             product_type |-> None,
                             additional_categorizations |-> <<>>], 1)
        sub == ProductInput([main_category |-> "Produce", subcategory |-> Some("Fruit"),
                             product_type |-> None,
                             additional_categorizations |-> <<>>], 2)
        type == ProductInput([main_category |-> "Produce", subcategory |-> Some("Fruit"),
                              product_type |-> Some("Apples"),
                              additional_categorizations |-> <<>>], 3)
    IN {<<top, sub>>, <<sub, top>>, <<top, sub, type>>, <<type, sub, top>>}

\* Batches of one input without product type or additional categorization.
PlainBatches == {b \in ShallowBatches : b[1].additional_categorizations = <<>>}

\* The batch of one input of a category, without subcategory.
TopBatches == {b \in PlainBatches : b[1].subcategory = None}

\* The categorizations get_paths is applied to: every combination of
\* subcategory and product type, a type without subcategory included.
PathCategorizations ==
    {Categorization("Produce", sub, type) :
        sub \in {None, Some("Fruit")}, type \in {None, Some("Apples")}}
    \cup {Categorization("Snacks", None, None)}

\* The lists of at most MaxAdditional additional categorizations.
PathAdditionalLists ==
    UNION {[1..n -> PathCategorizations] : n \in 0..MaxAdditional}

\* The inputs of get_paths.
PathInputs ==
    {[product |-> [name |-> 1, category |-> c.main_category,
                   subcategory |-> c.subcategory, product_type |-> c.product_type],
      main_category |-> c.main_category, subcategory |-> c.subcategory,
      product_type |-> c.product_type, additional_categorizations |-> a] :
        c \in {x \in PathCategorizations : x.main_category = "Produce"},
        a \in PathAdditionalLists}

\* Batches of two inputs of one primary categorization whose lists of
\* additional categorizations differ.
MixedBatches ==
    LET shapes == {x \in InputShapes : x.product_type = None}
        pairs == {pair \in shapes \X shapes :
                     /\ pair[1].subcategory = pair[2].subcategory
                     /\ pair[1].additional_categorizations
                           # pair[2].additional_categorizations}
    IN {<<ProductInput(pair[1], 1), ProductInput(pair[2], 2)>> : pair \in pairs}

\* Batches of inputs of one primary categorization, of the sizes around
\* one and two full groups.
ChunkBatches ==
    {[i \in 1..n |-> ProductInput(shape, i)] :
        shape \in {x \in InputShapes : /\ x.product_type = None
                                       /\ x.additional_categorizations = <<>>},
        n \in {1, PRODUCTS_PER_GROUP, PRODUCTS_PER_GROUP + 1,
               2 * PRODUCTS_PER_GROUP, 2 * PRODUCTS_PER_GROUP + 1}}

\* Batches of one input or two without additional categorization, of
\* every combination of subcategory and product type, a type without
\* subcategory included.
TypeBatches ==
    LET shapes == {[main_category |-> c.main_category, subcategory |-> c.subcategory,
                    product_type |-> c.product_type,
                    additional_categorizations |-> <<>>] :
                      c \in {x \in PathCategorizations : x.main_category = "Produce"}}
    IN {<<ProductInput(x, 1)>> : x \in shapes}
       \cup {<<ProductInput(pair[1], 1), ProductInput(pair[2], 2)>> :
               pair \in shapes \X shapes}

\* What the store answers to the batched gets of one call: the batched
\* get answers or fails, and it finds every record or none for the first
\* record of the log.
FetchFaults == {[fail_batch |-> b, none |-> n] : b \in 0..1, n \in {{}, {1}}}

\* A tag shorter than the 4 bytes of a chunk id.
ShortTags == {<<1, 0, 0>>}

\* The nodes at which links are made other than by create_links_for_group.
ForeignBases ==
    {path_entry_hash(MainPathStr("Produce")),
     path_entry_hash(SubPathStr("Produce", "Fruit"))}

\* The records such a link points at: a group, or the latest record of
\* the log, which may be none.
ForeignTargets(d) == GroupHashes(d) \cup (DOMAIN d \cap {Len(d)})

\* The links of the log whose tag is no chunk id.
ShortLinks(d) == {i \in DOMAIN d : IsCreateLink(d, i) /\ Len(d[i].tag) < 4}

\* The orders in which a HashMap may hand out a set of keys.
Orders(keys) ==
    {o \in [1..Cardinality(keys) -> keys] : Range(o) = keys}

\* The faults of one chunk whose group has np paths, at most budget of them.
ChunkFaults(np, budget) ==
    {f \in [lookup : {"ok", "hash_err", "links_err", "get_none", "get_err"},
            create_entry : {"ok", "err"},
            path_hash_err : SUBSET (1..np),
            create_link_err : SUBSET (1..np)] :
        /\ f.path_hash_err \cap f.create_link_err = {}
        /\ FaultCount(f) <= budget}

\* The number of paths of the group of each chunk of a call, in the order
\* in which the call works through them.
chunk_paths(products, order) ==
    LET g == grouped_products(products)
        of_key(key) ==
            [k \in 1..num_chunks(Len(g[key])) |->
               Len(get_paths([product |-> 0,
                              main_category |-> key_category(key),
                              subcategory |-> key_subcategory(key),
                              product_type |-> key_product_type(key),
                              additional_categorizations |->
                                  Head(chunk(g[key], k)).additional_categorizations]))]
    IN Concat([i \in DOMAIN order |->
                 IF key_has_path(order[i]) THEN of_key(order[i]) ELSE <<>>])

\* The plans (one fault record per chunk) with at most budget faults.
RECURSIVE Plans(_, _)
Plans(nps, budget) ==
    IF nps = <<>> THEN {<<>>}
    ELSE UNION {{<<f>> \o rest : rest \in Plans(Tail(nps), budget - FaultCount(f))}
                : f \in ChunkFaults(Head(nps), budget)}

ReadOps ==
    {"get_products_by_category", "get_all_group_counts_for_path",
     "get_products_by_references", "get_product_count_for_group",
     "get_all_category_products", "extract_products_from_group",
     "get_paginated_products_from_group", "get_private_cart",
     "get_checked_out_carts"}

\* What the store may answer to a get.
GetOutcomes == {"ok", "none", "err"}

\* The parameters of the reads made next to foreign links: the nodes of
\* one category, the first positions.
NodeParams ==
    {[category |-> "Produce", subcategory |-> sub, product_type |-> None,
      offset |-> o, limit |-> l] :
        sub \in {None, Some("Fruit")}, o \in 0..1, l \in {1, MaxGroups}}

\* The paths of the group of a CreateProductGroupInput.
group_paths(input) ==
    get_paths([product |-> 0,
               main_category |-> input.category,
               subcategory |-> input.subcategory,
               product_type |-> input.product_type,
               additional_categorizations |-> input.additional_categorizations])

\* The inputs of a direct call of create_product_group: a group without
\* product type, of one product or of none, with chunk id 0.
GroupInputs ==
    {[category |-> shape.main_category, subcategory |-> shape.subcategory,
      product_type |-> shape.product_type,
      products |-> [i \in 1..n |-> [name |-> i, category |-> shape.main_category,
                                    subcategory |-> shape.subcategory,
                                    product_type |-> shape.product_type]],
      chunk_id |-> 0,
      additional_categorizations |-> shape.additional_categorizations] :
        shape \in {x \in InputShapes : x.product_type = None}, n \in 0..1}

\* Chunk ids whose encoding fills one, two, three and four bytes (below
\* 2^31).
WideChunkIds == {255, 256, 65536, 2147483647}

\* The inputs of a direct call of create_product_group with such a chunk
\* id: a group of one product linked at three paths.
TagGroupInputs ==
    {[input EXCEPT !.chunk_id = id] :
        input \in {x \in GroupInputs :
                      /\ Len(x.products) = 1
                      /\ x.subcategory # None
                      /\ x.additional_categorizations
                            = <<Categorization("Snacks", None, None)>>},
        id \in WideChunkIds}

\* The faults of a direct call: create_product_group makes no lookup.
GroupFaults(np, budget) == {f \in ChunkFaults(np, budget) : f.lookup = "ok"}

\* The references asked in one call: one or two, to a group of the log or
\* to a hash without a record, at the first or the second product.
References ==
    LET refs == {[group_hash |-> h, index |-> index] :
                    h \in GroupHashes(dht) \cup {Len(dht) + 1}, index \in 0..1}
    IN {<<r>> : r \in refs} \cup {<<r1, r2>> : r1 \in refs, r2 \in refs}

PathParams ==
    {[category |-> c, subcategory |-> lv[1], product_type |-> lv[2]] :
        c \in Categories, lv \in Levels \cup {<<None, Some("Apples")>>}}

Offsets == 0..MaxGroups \cup {UsizeMax}

Limits == 0..MaxGroups \cup {UsizeMax}

\* The paths read: every level of one category, the top of the other.
ReadPaths == {pp \in PathParams : pp.category = "Produce" \/ pp.subcategory = None}

ReadParams ==
    {[category |-> pp.category, subcategory |-> pp.subcategory,
      product_type |-> pp.product_type, offset |-> o, limit |-> l] :
        pp \in ReadPaths, o \in Offsets, l \in Limits}

(***************************** the state machine ***************************)

\* The callers whose calls of create_product_batch run at the same time.
Callers == {"a", "b"}

\* A caller that has not called yet.
Idle == [pc |-> "idle", products |-> <<>>, chunk_id |-> 0, hash |-> 0, k |-> 0]

Init ==
    /\ dht = <<>>
    /\ last = [op |-> "init"]
    /\ faults = 0
    /\ inflight = [c \in Callers |-> Idle]

\* A read leaves the log as it is: it is explored as the last call of a
\* behaviour.
Writable == last.op \notin ReadOps

\* A call of create_product_batch with a batch of Batches, while fewer
\* than budget store calls have failed and the log holds fewer than cap
\* groups.
CreateProductBatch(Batches, budget, cap) ==
    /\ Writable
    /\ UNCHANGED inflight
    /\ \E products \in Batches :
         /\ Cardinality(GroupHashes(dht)) + total_chunks(products) <= cap
         /\ \E order \in Orders(DOMAIN grouped_products(products)) :
            \E plan \in Plans(chunk_paths(products, order), budget - faults) :
              LET Returned(r) ==
                      /\ dht' = r.dht
                      /\ faults' = faults + SumSeq([n \in DOMAIN plan |->
                                                     FaultCount(plan[n])])
                      /\ last' = [op |-> "create_product_batch", products |-> products,
                                  order |-> order,
                                  plan |-> plan, ok |-> r.ok, records |-> r.records,
                                  all_group_hashes |-> r.all_group_hashes,
                                  failed |-> r.failed]
              IN Returned(create_product_batch(dht, products, order, plan,
                                               NoFetchFault))

RecatInputs ==
    {[group_hash |-> h, new_category |-> pp.category,
      new_subcategory |-> pp.subcategory, new_product_type |-> pp.product_type] :
        h \in GroupHashes(dht) \cup {Len(dht) + 1}, pp \in PathParams}

\* A call of recategorize_product_group whose store calls answer.
RecategorizeProductGroup ==
    /\ Writable
    /\ UNCHANGED inflight
    /\ Cardinality(GroupHashes(dht)) < MaxGroups
    /\ \E input \in RecatInputs :
         LET Returned(r) ==
                 /\ dht' = r.dht
                 /\ UNCHANGED faults
                 /\ last' = [op |-> "recategorize_product_group", input |-> input,
                             fault |-> NoRecatFault, ok |-> r.ok, error |-> r.error,
                             new_group_hash |-> r.new_group_hash]
         IN Returned(recategorize_product_group(dht, input, NoRecatFault))

\* A call of get_products_by_category whose store calls answer.
GetProductsByCategory ==
    /\ Writable
    /\ UNCHANGED inflight
    /\ \E params \in ReadParams :
       \E wraps \in IF params.offset + params.limit > UsizeMax THEN BOOLEAN ELSE {FALSE} :
         /\ last' = [op |-> "get_products_by_category", params |-> params,
                     wraps |-> wraps,
                     result |-> get_products_by_category(dht, params, TRUE,
                                                         NoFetchFault, wraps)]
         /\ UNCHANGED <<dht, faults>>

\* A call of get_all_group_counts_for_path whose store calls answer.
GetAllGroupCountsForPath ==
    /\ Writable
    /\ UNCHANGED inflight
    /\ \E params \in ReadPaths :
         /\ last' = [op |-> "get_all_group_counts_for_path", params |-> params,
                     result |-> get_all_group_counts_for_path(
                                    dht, params, TRUE, [i \in 1..Len(dht) |-> "ok"])]
         /\ UNCHANGED <<dht, faults>>

\* A direct call of create_product_group while store calls may fail. The
\* store has no transaction over the writes of a call: what a call wrote
\* before it returned Err stays written.
CreateProductGroupOf(Inputs) ==
    /\ Writable
    /\ UNCHANGED inflight
    /\ Cardinality(GroupHashes(dht)) < MaxFaultyGroups
    /\ \E input \in Inputs :
       \E f \in GroupFaults(Len(group_paths(input)), MaxFaults - faults) :
         LET Returned(r) ==
                 /\ dht' = r.dht
                 /\ faults' = faults + FaultCount(f)
                 /\ last' = [op |-> "create_product_group", input |-> input,
                             fault |-> f, ok |-> r.ok, error |-> r.error,
                             hash |-> r.hash]
         IN Returned(create_product_group(dht, input, f))

CreateProductGroup == CreateProductGroupOf(GroupInputs)

\* The inputs of a direct call for a group of one category, without
\* additional categorizations.
PlainGroupInputs ==
    {input \in GroupInputs : /\ input.additional_categorizations = <<>>
                             /\ input.subcategory = None}

\* Those with a product.
FilledGroupInputs == {input \in PlainGroupInputs : input.products # <<>>}

\* A call of get_products_by_references; get_ok: whether the batched get
\* answers.
GetProductsByReferences ==
    /\ Writable
    /\ UNCHANGED inflight
    /\ \E references \in References :
       \E order \in Orders({references[i].group_hash : i \in DOMAIN references}) :
       \E get_ok \in BOOLEAN :
         /\ last' = [op |-> "get_products_by_references",
                     references |-> references, get_ok |-> get_ok,
                     result |-> get_products_by_references(dht, references, order,
                                                           get_ok)]
         /\ UNCHANGED <<dht, faults>>

\* A ProductTypeToGroup link with a tag shorter than 4 bytes, committed by
\* an agent that does not go through create_links_for_group: validation
\* accepts a link of any tag. At most MaxForeign of them.
ForeignLink ==
    /\ Writable
    /\ UNCHANGED inflight
    /\ Cardinality(ShortLinks(dht)) < MaxForeign
    /\ \E base \in ForeignBases, target \in ForeignTargets(dht), tag \in ShortTags :
         /\ dht' = create_link(dht, base, target, tag)
         /\ last' = [op |-> "foreign_link"]
         /\ UNCHANGED faults

\* A call of get_products_by_category with parameters of Params, while the
\* batched gets answer as one of Fetches.
GetProductsByCategoryWith(Params, Fetches) ==
    /\ Writable
    /\ UNCHANGED inflight
    /\ \E params \in Params, fetch \in Fetches :
         /\ last' = [op |-> "get_products_by_category", params |-> params,
                     wraps |-> FALSE, fetch |-> fetch,
                     result |-> get_products_by_category(dht, params, TRUE, fetch,
                                                         FALSE)]
         /\ UNCHANGED <<dht, faults>>

\* A call of get_all_group_counts_for_path while the get of each link
\* answers, finds nothing or fails; at most MaxFaults do not answer.
GetAllGroupCountsForPathWith(Params) ==
    /\ Writable
    /\ UNCHANGED inflight
    /\ \E params \in Params :
       \E gets \in [1..Len(get_links(dht, path_entry_hash(Unwrap(base_path(params)))))
                    -> GetOutcomes] :
         /\ Cardinality({i \in DOMAIN gets : gets[i] # "ok"}) <= MaxFaults
         /\ last' = [op |-> "get_all_group_counts_for_path", params |-> params,
                     gets |-> gets,
                     result |-> get_all_group_counts_for_path(dht, params, TRUE, gets)]
         /\ UNCHANGED <<dht, faults>>

\* A call of get_all_category_products while the batched gets answer as
\* one of Fetches.
GetAllCategoryProducts(Fetches) ==
    /\ Writable
    /\ UNCHANGED inflight
    /\ \E category \in Categories, fetch \in Fetches :
         /\ last' = [op |-> "get_all_category_products",
                     params |-> [category |-> category, subcategory |-> None,
                                 product_type |-> None],
                     fetch |-> fetch,
                     result |-> get_all_category_products(dht, category, TRUE, fetch)]
         /\ UNCHANGED <<dht, faults>>

\* A call of get_product_count_for_group.
GetProductCountForGroup(Params) ==
    /\ Writable
    /\ UNCHANGED inflight
    /\ \E params \in Params, got \in GetOutcomes :
         /\ last' = [op |-> "get_product_count_for_group", params |-> params,
                     got |-> got,
                     result |-> get_product_count_for_group(dht, params, TRUE, got)]
         /\ UNCHANGED <<dht, faults>>

\* What the store answers to the calls of one recategorize_product_group
\* when at most one of them fails: the get of the group, the get_links of
\* the first old path, the first delete_link, create_entry or the first
\* create_link.
RecatFaults ==
    {NoRecatFault}
    \cup {[NoRecatFault EXCEPT !.get = g] : g \in {"none", "err"}}
    \cup {[NoRecatFault EXCEPT !.old_links_err = {1}],
          [NoRecatFault EXCEPT !.delete_err = {1}],
          [NoRecatFault EXCEPT !.create_entry = "err"],
          [NoRecatFault EXCEPT !.create_link_err = {1}]}

\* The hashes a caller may hand to a single-group call: that of a group,
\* that of the latest record of the log (a link, a deletion or a group),
\* and one that has no record.
AnyHashes(d) == GroupHashes(d) \cup (DOMAIN d \cap {Len(d)}) \cup {Len(d) + 1}

\* The categorization a group is moved to.
NewCategorizations ==
    {pp \in PathParams : /\ pp.category = "Snacks"
                          /\ pp.subcategory = None
                          /\ pp.product_type = None}

\* A call of recategorize_product_group on any hash, while at most one
\* store call fails. What the call wrote or deleted before it returned
\* Err stays.
RecategorizeAnyRecord ==
    /\ Writable
    /\ UNCHANGED inflight
    /\ Cardinality(GroupHashes(dht)) < MaxGroups
    /\ \E h \in AnyHashes(dht), pp \in NewCategorizations :
       \E f \in {x \in RecatFaults : RecatFaultCount(x) <= MaxFaults - faults} :
         LET input == [group_hash |-> h, new_category |-> pp.category,
                       new_subcategory |-> pp.subcategory,
                       new_product_type |-> pp.product_type]
             Returned(r) ==
                 /\ dht' = r.dht
                 /\ faults' = faults + RecatFaultCount(f)
                 /\ last' = [op |-> "recategorize_product_group", input |-> input,
                             fault |-> f, ok |-> r.ok, error |-> r.error,
                             new_group_hash |-> r.new_group_hash]
         IN Returned(recategorize_product_group(dht, input, f))

\* The nodes recategorize_product_group reads the old links from.
OldBases ==
    {path_entry_hash(Append(MainPathStr("Produce"), "chunk_1"))}

\* A ProductTypeToGroup link to a group at such a node, committed by an
\* agent that does not go through create_links_for_group. At most
\* MaxForeign of them.
ForeignOldLink ==
    /\ Writable
    /\ UNCHANGED inflight
    /\ Cardinality(ShortLinks(dht)) < MaxForeign
    /\ \E base \in OldBases, target \in GroupHashes(dht), tag \in ShortTags :
         /\ dht' = create_link(dht, base, target, tag)
         /\ last' = [op |-> "foreign_link"]
         /\ UNCHANGED faults

\* get_paths applied to an input, and the links its caller
\* create_product_group makes from the paths, in an empty store.
ResolvePaths ==
    /\ dht = <<>>
    /\ UNCHANGED inflight
    /\ \E input \in PathInputs :
         LET Returned(r) ==
                 /\ dht' = r.dht
                 /\ last' = [op |-> "get_paths", input |-> input,
                             paths |-> get_paths(input), hash |-> r.hash]
                 /\ UNCHANGED faults
         IN Returned(create_product_group(
                dht, [category |-> input.main_category,
                      subcategory |-> input.subcategory,
                      product_type |-> input.product_type,
                      products |-> <<input.product>>,
                      chunk_id |-> 0,
                      additional_categorizations |->
                          input.additional_categorizations], NoFault))

\* A call of extract_products_from_group on any hash.
ExtractProductsFromGroup ==
    /\ Writable
    /\ UNCHANGED inflight
    /\ \E h \in AnyHashes(dht), outcome \in GetOutcomes :
         /\ last' = [op |-> "extract_products_from_group", group_hash |-> h,
                     got |-> outcome,
                     result |-> extract_products_from_group(dht, h, outcome)]
         /\ UNCHANGED <<dht, faults>>

\* A call of get_paginated_products_from_group on any hash, for the first
\* positions.
GetPaginatedProductsFromGroup ==
    /\ Writable
    /\ UNCHANGED inflight
    /\ \E h \in AnyHashes(dht), outcome \in GetOutcomes :
       \E offset \in 0..1, limit \in 0..1 :
         LET params == [group_hash |-> h, offset |-> offset, limit |-> limit]
         IN /\ last' = [op |-> "get_paginated_products_from_group",
                        params |-> params, got |-> outcome,
                        result |-> get_paginated_products_from_group(dht, params,
                                                                     outcome)]
            /\ UNCHANGED <<dht, faults>>

\* The key of a batch of one input.
OnlyKey(products) == group_key(normalize_input(products[1]))

\* The input of create_product_group of the call of a caller.
InflightGroup(c) ==
    chunk_group_input(OnlyKey(inflight[c].products),
                      grouped_products(inflight[c].products)[
                          OnlyKey(inflight[c].products)],
                      inflight[c].chunk_id)

\* No call is under way.
NoneInflight == \A c \in Callers : inflight[c].pc = "idle"

\* A call of create_product_batch that runs alone, before the others.
SequentialBatch ==
    /\ NoneInflight
    /\ CreateProductBatch(PlainBatches, 0, MaxGroups - Cardinality(Callers))

\* A caller calls create_product_batch with one input: the call groups the
\* input and reads the latest chunk id of the specific path of its key
\* (product.rs 534-574).
BatchLookup(c) ==
    /\ inflight[c].pc = "idle"
    /\ Cardinality(GroupHashes(dht))
         + Cardinality({x \in Callers : inflight[x].pc = "entry"}) < MaxGroups
    /\ \E products \in PlainBatches :
         inflight' = [inflight EXCEPT ![c] =
             [pc |-> "entry", products |-> products,
              chunk_id |-> next_chunk_id(get_latest_group_for_path(
                               dht, specific_path(OnlyKey(products)), "ok")),
              hash |-> 0, k |-> 0]]
    /\ UNCHANGED <<dht, last, faults>>

\* create_product_group writes the entry of the group (product.rs 170-186).
BatchCreateEntry(c) ==
    /\ inflight[c].pc = "entry"
    /\ LET Written(e) ==
               /\ dht' = e.dht
               /\ inflight' = [inflight EXCEPT ![c].pc = "link", ![c].hash = e.hash,
                                               ![c].k = 1]
       IN Written(create_entry(dht, [category |-> InflightGroup(c).category,
                                     subcategory |-> InflightGroup(c).subcategory,
                                     product_type |-> InflightGroup(c).product_type,
                                     products |-> InflightGroup(c).products,
                                     chunk_id |-> InflightGroup(c).chunk_id]))
    /\ UNCHANGED <<last, faults>>

\* create_links_for_group makes the link of the next path (product.rs
\* 100-150).
BatchCreateLink(c) ==
    /\ inflight[c].pc = "link"
    /\ LET paths == group_paths(InflightGroup(c))
       IN /\ dht' = create_link(dht, path_entry_hash(paths[inflight[c].k]),
                                inflight[c].hash, to_le_bytes(inflight[c].chunk_id))
          /\ inflight' = [inflight EXCEPT
                 ![c].pc = IF inflight[c].k = Len(paths) THEN "fetch" ELSE "link",
                 ![c].k = inflight[c].k + 1]
    /\ UNCHANGED <<last, faults>>

\* The call fetches the record of its group and returns (product.rs
\* 652-663).
BatchReturn(c) ==
    /\ inflight[c].pc = "fetch"
    /\ LET Returned(r) ==
               last' = [op |-> "create_product_batch", caller |-> c,
                        products |-> inflight[c].products, ok |-> r.ok,
                        records |-> r.records,
                        all_group_hashes |-> <<inflight[c].hash>>, failed |-> 0]
       IN Returned(concurrent_get_records(dht, <<inflight[c].hash>>, NoFetchFault))
    /\ inflight' = [inflight EXCEPT ![c].pc = "done"]
    /\ UNCHANGED <<dht, faults>>

Next ==
    \/ CreateProductBatch(SingleBatches \cup BigBatches, 0, MaxGroups)
    \/ GetProductsByCategory
    \/ GetAllGroupCountsForPath

Spec == Init /\ [][Next]_vars

\* Groups are created and recategorized; every store call answers.
NextRecat ==
    \/ CreateProductBatch(SingleBatches, 0, MaxGroups)
    \/ RecategorizeProductGroup

SpecRecat == Init /\ [][NextRecat]_vars

\* Groups are created while store calls may fail.
NextFaulty ==
    \/ CreateProductBatch(ShallowBatches, MaxFaults, MaxFaultyGroups)

SpecFaulty == Init /\ [][NextFaulty]_vars

\* Groups are created by direct calls, while store calls may fail, and
\* resolved by reference.
NextGroup ==
    \/ CreateProductGroup
    \/ GetProductsByReferences

SpecGroup == Init /\ [][NextGroup]_vars

\* Calls that create several groups, while store calls may fail.
NextLevels ==
    \/ CreateProductBatch(LevelBatches, MaxFaults, MaxGroups)

SpecLevels == Init /\ [][NextLevels]_vars

\* Groups are created while store calls may fail and while links with
\* short tags appear at their nodes.
NextAlloc ==
    \/ CreateProductBatch(PlainBatches, MaxFaults, MaxFaultyGroups)
    \/ ForeignLink

SpecAlloc == Init /\ [][NextAlloc]_vars

\* Groups are created while links with short tags appear at their nodes,
\* and read while gets may fail.
NextForeign ==
    \/ CreateProductBatch(PlainBatches, 0, MaxFaultyGroups)
    \/ ForeignLink
    \/ GetProductsByCategoryWith(NodeParams, {NoFetchFault})
    \/ GetAllGroupCountsForPathWith({pp \in NodeParams : pp.offset = 0 /\ pp.limit = 1})
    \/ GetProductCountForGroup({pp \in NodeParams : pp.limit = 1})

SpecForeign == Init /\ [][NextForeign]_vars

\* Groups are created and read while the batched get may fail.
NextFetch ==
    \/ CreateProductBatch(ShallowBatches, 0, MaxFaultyGroups)
    \/ GetAllCategoryProducts(FetchFaults)
    \/ GetProductsByCategoryWith(NodeParams, FetchFaults)

SpecFetch == Init /\ [][NextFetch]_vars

\* Groups are created, by a batch or directly, and recategorized while
\* store calls may fail; a link may sit at a node of old links.
NextReach ==
    \/ CreateProductBatch(TopBatches, MaxFaults, MaxFaultyGroups)
    \/ CreateProductGroupOf(FilledGroupInputs)
    \/ RecategorizeAnyRecord
    \/ ForeignOldLink

SpecReach == Init /\ [][NextReach]_vars

\* Groups, empty ones too, are created directly and recategorized while
\* store calls may fail; a link may sit at a node of old links.
NextFailed ==
    \/ CreateProductGroupOf(PlainGroupInputs)
    \/ RecategorizeAnyRecord
    \/ ForeignOldLink

SpecFailed == Init /\ [][NextFailed]_vars

\* get_paths over its inputs.
NextPaths ==
    \/ ResolvePaths

SpecPaths == Init /\ [][NextPaths]_vars

\* Calls of one input, and calls of two inputs that differ in their
\* additional categorizations only.
NextMixed ==
    \/ CreateProductBatch(ShallowBatches \cup MixedBatches, 0, MaxGroups)

SpecMixed == Init /\ [][NextMixed]_vars

\* The calls that fetch one group by its hash, next to the writes.
NextSingle ==
    \/ CreateProductBatch(PlainBatches, 0, MaxFaultyGroups)
    \/ ExtractProductsFromGroup
    \/ GetPaginatedProductsFromGroup
    \/ RecategorizeAnyRecord

SpecSingle == Init /\ [][NextSingle]_vars

\* Two calls of create_product_batch whose store calls interleave, after
\* calls that ran alone.
NextRace ==
    \/ SequentialBatch
    \/ \E c \in Callers : BatchLookup(c)
    \/ \E c \in Callers : BatchCreateEntry(c)
    \/ \E c \in Callers : BatchCreateLink(c)
    \/ \E c \in Callers : BatchReturn(c)

SpecRace == Init /\ [][NextRace]_vars

\* Groups of any chunk id are created directly and recategorized.
NextTags ==
    \/ CreateProductGroupOf(TagGroupInputs)
    \/ RecategorizeAnyRecord

SpecTags == Init /\ [][NextTags]_vars

\* Calls of one primary categorization that fill up to three groups.
NextChunks ==
    \/ CreateProductBatch(ChunkBatches, 0, MaxGroups)

SpecChunks == Init /\ [][NextChunks]_vars

\* Groups of one product and of two are created and recategorized.
NextMove ==
    \/ CreateProductBatch(TopBatches \cup MixedBatches, 0, MaxFaultyGroups)
    \/ RecategorizeProductGroup

SpecMove == Init /\ [][NextMove]_vars

\* Calls whose inputs have any combination of subcategory and product
\* type, while store calls fail.
NextTypes ==
    \/ CreateProductBatch(TypeBatches, MaxFaults, MaxFaultyGroups)

SpecTypes == Init /\ [][NextTypes]_vars

(******************************* the cart zome *****************************)

\* agent_info()?.agent_initial_pubkey: the agent that makes the calls.
agent_initial_pubkey == "agent"

\* get_links(agent, link type): the live links of that type from the
\* base, in the order of their creation.
get_links_of_type(d, base, link_type) ==
    LET F[i \in 0..Len(d)] ==
            IF i = 0 THEN <<>>
            ELSE IF IsLiveLink(d, i) /\ d[i].base = base /\ d[i].link_type = link_type
                 THEN Append(F[i - 1], [create_link_hash |-> i, target |-> d[i].target])
                 ELSE F[i - 1]
    IN F[Len(d)]

\* create_link(base, target, link type, tag)
create_link_of_type(d, base, target, link_type, tag) ==
    Append(d, [type |-> "CreateLink", base |-> base, target |-> target,
               link_type |-> link_type, tag |-> tag])

\* update_entry(original action hash, entry): a record of its own, with
\* its own action hash; the original record stays.
update_entry(d, original, entry) ==
    [dht |-> Append(d, [type |-> "Update", original |-> original, entry |-> entry]),
     hash |-> Len(d) + 1]

\* Whether the record of a hash carries an entry.
HasEntry(d, hash) == hash \in DOMAIN d /\ d[hash].type \in {"Create", "Update"}

\* decode_base64_to_hash (cart.rs 10-17): a string of the model is the
\* base64 text of a hash, <<"u", hash>>, or a text that is none.
decode_base64_to_hash(base64_string) ==
    IF Len(base64_string) = 2 /\ base64_string[1] = "u"
    THEN [ok |-> TRUE, hash |-> base64_string[2]]
    ELSE [ok |-> FALSE, hash |-> 0]

\* The items of replace_private_cart converted (cart.rs 28-50): an item
\* whose hash does not decode is skipped.
cart_items(items) ==
    LET F[i \in 0..Len(items)] ==
            IF i = 0 THEN <<>>
            ELSE IF decode_base64_to_hash(items[i].groupHash).ok
                 THEN Append(F[i - 1],
                             [group_hash |-> decode_base64_to_hash(items[i].groupHash).hash,
                              product_index |-> items[i].productIndex,
                              quantity |-> items[i].quantity,
                              timestamp |-> items[i].timestamp,
                              note |-> items[i].note])
                 ELSE F[i - 1]
    IN F[Len(items)]

PrivateCart(items, last_updated) ==
    [entry_type |-> "PrivateCart", items |-> items, last_updated |-> last_updated]

\* The faults of a call of the cart zome: the failing store calls, for
\* delete_link the positions of the links whose deletion fails;
\* read_links is the get_links of get_private_cart, get_links the one of
\* the writers and of get_checked_out_carts.
NoCartFault ==
    [get |-> "ok", read_links |-> "ok", create_entry |-> "ok", get_links |-> "ok",
     delete_err |-> {}, create_link |-> "ok", order_entry |-> "ok",
     order_link |-> "ok", update_entry |-> "ok"]

CartFaultCount(f) ==
    (IF f.get = "err" THEN 1 ELSE 0) + (IF f.read_links = "ok" THEN 0 ELSE 1)
    + (IF f.create_entry = "ok" THEN 0 ELSE 1)
    + (IF f.get_links = "ok" THEN 0 ELSE 1) + Cardinality(f.delete_err)
    + (IF f.create_link = "ok" THEN 0 ELSE 1)
    + (IF f.order_entry = "ok" THEN 0 ELSE 1)
    + (IF f.order_link = "ok" THEN 0 ELSE 1)
    + (IF f.update_entry = "ok" THEN 0 ELSE 1)

\* The loop of replace_private_cart (cart.rs 79-92): every link is tried,
\* a failed deletion is counted and passed over.
delete_existing_links(d, links, delete_err) ==
    LET F[k \in 0..Len(links)] ==
            IF k = 0 THEN d
            ELSE IF k \in delete_err THEN F[k - 1]
                 ELSE delete_link(F[k - 1], links[k].create_link_hash)
    IN F[Len(links)]

\* The loops with delete_link(..)? (cart.rs 214-216, 283-285): the first
\* failed deletion ends the call with its error.
delete_links_or_fail(d, links, delete_err) ==
    LET failing == {k \in DOMAIN links : k \in delete_err}
        stop == IF failing = {} THEN Len(links) + 1
                ELSE CHOOSE k \in failing : \A j \in failing : k <= j
    IN [ok |-> failing = {},
        dht |-> delete_existing_links(d, SubSeq(links, 1, stop - 1), {})]

\* The tail of the three writers of the private cart: get the links to
\* the existing carts, delete them, link the new cart.
relink_private_cart(d, cart_hash, f) ==
    LET links == get_links_of_type(d, agent_initial_pubkey, "AgentToPrivateCart")
        deleted == delete_links_or_fail(d, links, f.delete_err)
    IN IF f.get_links = "err" THEN [ok |-> FALSE, dht |-> d]
       ELSE IF ~deleted.ok THEN [ok |-> FALSE, dht |-> deleted.dht]
       ELSE IF f.create_link = "err" THEN [ok |-> FALSE, dht |-> deleted.dht]
       ELSE [ok |-> TRUE,
             dht |-> create_link_of_type(deleted.dht, agent_initial_pubkey, cart_hash,
                                         "AgentToPrivateCart", <<>>)]

\* replace_private_cart_impl (cart.rs 21-118). input = [items,
\* last_updated]. Returns the new log, whether the call returned Ok, and
\* the cart it wrote.
replace_private_cart_impl(d, input, f) ==
    LET cart == PrivateCart(cart_items(input.items), input.last_updated)
        e == create_entry(d, cart)
        links == get_links_of_type(e.dht, agent_initial_pubkey, "AgentToPrivateCart")
        deleted == delete_existing_links(e.dht, links, f.delete_err)
    IN IF f.create_entry = "err" THEN [ok |-> FALSE, dht |-> d, cart |-> cart]
       ELSE IF f.get_links = "err" THEN [ok |-> FALSE, dht |-> e.dht, cart |-> cart]
       ELSE IF f.create_link = "err" THEN [ok |-> FALSE, dht |-> deleted, cart |-> cart]
       ELSE [ok |-> TRUE,
             dht |-> create_link_of_type(deleted, agent_initial_pubkey, e.hash,
                                         "AgentToPrivateCart", <<>>),
             cart |-> cart]

\* get_private_cart_impl (cart.rs 121-165): the cart of the first link;
\* an empty cart stamped with the time of the call when there is no link
\* or the store does not find the record. now is the answer of sys_time.
get_private_cart_impl(d, now, f) ==
    LET links == get_links_of_type(d, agent_initial_pubkey, "AgentToPrivateCart")
        got == get(d, Head(links).target, f.get)
    IN IF f.read_links = "err" THEN [ok |-> FALSE, error |-> "store", cart |-> None]
       ELSE IF links = <<>> THEN [ok |-> TRUE, error |-> "",
                                  cart |-> Some(PrivateCart(<<>>, now))]
       ELSE IF ~got.ok THEN [ok |-> FALSE, error |-> "store", cart |-> None]
       ELSE IF got.record = None THEN [ok |-> TRUE, error |-> "",
                                       cart |-> Some(PrivateCart(<<>>, now))]
       ELSE IF ~HasEntry(d, Unwrap(got.record))
       THEN [ok |-> FALSE, error |-> "Expected app entry", cart |-> None]
       ELSE IF d[Unwrap(got.record)].entry.entry_type # "PrivateCart"
       THEN [ok |-> FALSE, error |-> "Failed to deserialize", cart |-> None]
       ELSE [ok |-> TRUE, error |-> "", cart |-> Some(d[Unwrap(got.record)].entry)]

\* The cart of add_to_private_cart after the item of the input is
\* removed, updated or pushed (cart.rs 175-203).
updated_cart(cart, input, current_time) ==
    LET found == {i \in DOMAIN cart.items :
                     /\ cart.items[i].group_hash = input.group_hash
                     /\ cart.items[i].product_index = input.product_index}
        index == IF found = {} THEN 0
                 ELSE CHOOSE i \in found : \A j \in found : i <= j
        item == [group_hash |-> input.group_hash,
                 product_index |-> input.product_index,
                 quantity |-> input.quantity,
                 timestamp |-> current_time,
                 note |-> input.note]
        items == IF input.quantity = 0
                 THEN IF index = 0 THEN cart.items
                      ELSE SubSeq(cart.items, 1, index - 1)
                           \o SubSeq(cart.items, index + 1, Len(cart.items))
                 ELSE IF index = 0 THEN Append(cart.items, item)
                      ELSE [cart.items EXCEPT ![index] = item]
    IN PrivateCart(items, current_time)

\* add_to_private_cart_impl (cart.rs 168-227). input = [group_hash,
\* product_index, quantity, note].
add_to_private_cart_impl(d, input, now, f) ==
    LET current == get_private_cart_impl(d, now, f)
        cart == updated_cart(Unwrap(current.cart), input, now)
        e == create_entry(d, cart)
        r == relink_private_cart(e.dht, e.hash, f)
    IN IF ~current.ok THEN [ok |-> FALSE, dht |-> d, cart |-> None]
       ELSE IF f.create_entry = "err" THEN [ok |-> FALSE, dht |-> d, cart |-> Some(cart)]
       ELSE [ok |-> r.ok, dht |-> r.dht, cart |-> Some(cart)]

\* The order of checkout_cart (cart.rs 246-255): the id is the text of
\* the time.
CheckedOutCart(input, current_time) ==
    [entry_type |-> "CheckedOutCart",
     id |-> ToString(current_time),
     products |-> Unwrap(input.cart_products),
     total |-> 0,
     created_at |-> current_time,
     status |-> "processing",
     address_hash |-> input.address_hash,
     delivery_instructions |-> input.delivery_instructions,
     delivery_time |-> input.delivery_time]

\* A checkout_cart that leaves the private cart as it is.
checkout_cart_impl_uncleared(d, input, now, f) ==
    LET order == create_entry(d, CheckedOutCart(input, now))
        linked == create_link_of_type(order.dht, agent_initial_pubkey, order.hash,
                                      "AgentToCheckedOutCart", "customer")
    IN IF input.cart_products = None
       THEN [ok |-> FALSE, error |-> "Cart products required", dht |-> d, hash |-> 0,
             cart |-> None]
       ELSE IF Unwrap(input.cart_products) = <<>>
       THEN [ok |-> FALSE, error |-> "Cart is empty", dht |-> d, hash |-> 0,
             cart |-> None]
       ELSE IF f.order_entry = "err"
       THEN [ok |-> FALSE, error |-> "store", dht |-> d, hash |-> 0, cart |-> None]
       ELSE IF f.order_link = "err"
       THEN [ok |-> FALSE, error |-> "store", dht |-> order.dht, hash |-> 0,
             cart |-> None]
       ELSE [ok |-> TRUE, error |-> "", dht |-> linked, hash |-> order.hash,
             cart |-> Some(PrivateCart(<<>>, now))]

\* checkout_cart_impl (cart.rs 230-296). input = [cart_products,
\* address_hash, delivery_instructions, delivery_time]. Returns the new
\* log, Ok(hash of the order) or the error, and the empty cart written.
checkout_cart_impl(d, input, now, f) ==
    LET order == create_entry(d, CheckedOutCart(input, now))
        linked == create_link_of_type(order.dht, agent_initial_pubkey, order.hash,
                                      "AgentToCheckedOutCart", "customer")
        empty_cart == PrivateCart(<<>>, now)
        e == create_entry(linked, empty_cart)
        r == relink_private_cart(e.dht, e.hash, f)
    IN IF input.cart_products = None
       THEN [ok |-> FALSE, error |-> "Cart products required", dht |-> d, hash |-> 0,
             cart |-> None]
       ELSE IF Unwrap(input.cart_products) = <<>>
       THEN [ok |-> FALSE, error |-> "Cart is empty", dht |-> d, hash |-> 0,
             cart |-> None]
       ELSE IF f.order_entry = "err"
       THEN [ok |-> FALSE, error |-> "store", dht |-> d, hash |-> 0, cart |-> None]
       ELSE IF f.order_link = "err"
       THEN [ok |-> FALSE, error |-> "store", dht |-> order.dht, hash |-> 0,
             cart |-> None]
       ELSE IF f.create_entry = "err"
       THEN [ok |-> FALSE, error |-> "store", dht |-> linked, hash |-> 0, cart |-> None]
       ELSE [ok |-> r.ok, error |-> IF r.ok THEN "" ELSE "store", dht |-> r.dht,
             hash |-> IF r.ok THEN order.hash ELSE 0, cart |-> Some(empty_cart)]

\* get_checked_out_cart_impl (cart.rs 345-381): Ok(Some(cart)), Ok(None)
\* when the store finds nothing, Err when get fails, when the record has
\* no entry or when its entry is no CheckedOutCart.
get_checked_out_cart_impl(d, action_hash, outcome) ==
    LET got == get(d, action_hash, outcome)
    IN IF ~got.ok THEN [ok |-> FALSE, error |-> "store", cart |-> None]
       ELSE IF got.record = None THEN [ok |-> TRUE, error |-> "", cart |-> None]
       ELSE IF ~HasEntry(d, action_hash)
       THEN [ok |-> FALSE, error |-> "Expected entry", cart |-> None]
       ELSE IF d[action_hash].entry.entry_type # "CheckedOutCart"
       THEN [ok |-> FALSE, error |-> "Failed to deserialize", cart |-> None]
       ELSE [ok |-> TRUE, error |-> "", cart |-> Some(d[action_hash].entry)]

\* sort_by(|a, b| b.cart.created_at.cmp(&a.cart.created_at)): a stable
\* sort, the newest first.
sort_by_created_at(carts) ==
    LET Before(i, j) ==
            \/ carts[i].cart.created_at > carts[j].cart.created_at
            \/ carts[i].cart.created_at = carts[j].cart.created_at /\ i < j
        Rank(i) == 1 + Cardinality({j \in DOMAIN carts : Before(j, i)})
    IN [k \in DOMAIN carts |-> carts[CHOOSE i \in DOMAIN carts : Rank(i) = k]]

\* get_checked_out_carts_impl (cart.rs 299-342): the orders linked from
\* the agent whose status is not "returned", the newest first. An order
\* the store does not find is passed over; an error of a get ends the call.
get_checked_out_carts_impl(d, f) ==
    LET links == get_links_of_type(d, agent_initial_pubkey, "AgentToCheckedOutCart")
        fetched == [k \in DOMAIN links |->
                       get_checked_out_cart_impl(d, links[k].target, f.get)]
        F[k \in 0..Len(links)] ==
            IF k = 0 THEN <<>>
            ELSE IF fetched[k].cart # None /\ Unwrap(fetched[k].cart).status # "returned"
                 THEN Append(F[k - 1], [cart_hash |-> links[k].target,
                                        cart |-> Unwrap(fetched[k].cart)])
                 ELSE F[k - 1]
    IN IF f.get_links = "err" \/ \E k \in DOMAIN links : ~fetched[k].ok
       THEN [ok |-> FALSE, carts |-> <<>>]
       ELSE [ok |-> TRUE, carts |-> sort_by_created_at(F[Len(links)])]

\* A return_to_shopping that leaves the link to the original order.
return_to_shopping_impl_linked(d, cart_hash, f) ==
    LET found == get_checked_out_cart_impl(d, cart_hash, f.get)
        updated_cart_entry == [Unwrap(found.cart) EXCEPT !.status = "returned"]
        u == update_entry(d, cart_hash, updated_cart_entry)
    IN IF ~found.ok THEN [ok |-> FALSE, error |-> found.error, dht |-> d]
       ELSE IF found.cart = None
       THEN [ok |-> FALSE, error |-> "Cart not found", dht |-> d]
       ELSE IF f.update_entry = "err" THEN [ok |-> FALSE, error |-> "store", dht |-> d]
       ELSE IF f.get_links = "err" THEN [ok |-> FALSE, error |-> "store", dht |-> u.dht]
       ELSE IF f.create_link = "err"
       THEN [ok |-> FALSE, error |-> "store", dht |-> u.dht]
       ELSE [ok |-> TRUE, error |-> "",
             dht |-> create_link_of_type(u.dht, agent_initial_pubkey, u.hash,
                                         "AgentToCheckedOutCart", "customer")]

\* return_to_shopping_impl (cart.rs 384-455): the order is updated to the
\* status "returned", the links of the agent to the original hash are
\* deleted and a link to the updated record is made.
return_to_shopping_impl(d, cart_hash, f) ==
    LET found == get_checked_out_cart_impl(d, cart_hash, f.get)
        updated_cart_entry == [Unwrap(found.cart) EXCEPT !.status = "returned"]
        u == update_entry(d, cart_hash, updated_cart_entry)
        links == SelectSeq(get_links_of_type(u.dht, agent_initial_pubkey,
                                             "AgentToCheckedOutCart"),
                           LAMBDA link : link.target = cart_hash)
        deleted == delete_links_or_fail(u.dht, links, f.delete_err)
    IN IF ~found.ok THEN [ok |-> FALSE, error |-> found.error, dht |-> d]
       ELSE IF found.cart = None
       THEN [ok |-> FALSE, error |-> "Cart not found", dht |-> d]
       ELSE IF f.update_entry = "err" THEN [ok |-> FALSE, error |-> "store", dht |-> d]
       ELSE IF f.get_links = "err" THEN [ok |-> FALSE, error |-> "store", dht |-> u.dht]
       ELSE IF ~deleted.ok THEN [ok |-> FALSE, error |-> "store", dht |-> deleted.dht]
       ELSE IF f.create_link = "err"
       THEN [ok |-> FALSE, error |-> "store", dht |-> deleted.dht]
       ELSE [ok |-> TRUE, error |-> "",
             dht |-> create_link_of_type(deleted.dht, agent_initial_pubkey, u.hash,
                                         "AgentToCheckedOutCart", "customer")]

(************************** the calls of the cart zome *********************)

\* The bounds of the cart specifications: a call is made while the log
\* holds fewer entries than the bound.
MaxCartEntries == 3

MaxOrderEntries == 5

\* The entries of the log: carts, orders and their updates.
CartEntries(d) == {h \in DOMAIN d : HasEntry(d, h)}

\* The latest time written into an entry of the log.
LatestTime(d) ==
    LET times == {0} \cup {IF d[h].entry.entry_type = "PrivateCart"
                           THEN d[h].entry.last_updated
                           ELSE d[h].entry.created_at : h \in CartEntries(d)}
    IN CHOOSE t \in times : \A u \in times : u <= t

\* sys_time(): what the clock may answer, the latest time of the log or
\* a later one.
Now(d) == {LatestTime(d), LatestTime(d) + 1}

\* The items of an input of replace_private_cart: none, one, and one
\* whose hash does not decode before one that does.
ReplaceItems(t) ==
    LET item(groupHash, productIndex) ==
            [groupHash |-> groupHash, productIndex |-> productIndex, quantity |-> 1,
             timestamp |-> t, note |-> None]
    IN {<<>>, <<item(<<"u", 1>>, 0)>>, <<item(<<"x">>, 0), item(<<"u", 1>>, 1)>>}

ReplaceInputs(d) ==
    UNION {{[items |-> items, last_updated |-> t] : items \in ReplaceItems(t)} :
              t \in Now(d)}

\* The inputs of add_to_private_cart: a product of two, put into the cart
\* or taken out of it.
AddInputs ==
    {[group_hash |-> 1, product_index |-> i, quantity |-> q, note |-> None] :
        i \in 0..1, q \in {0, 2}}

\* The inputs of checkout_cart: without products, with an empty list and
\* with one product.
CheckoutInputs ==
    {[cart_products |-> products, address_hash |-> None,
      delivery_instructions |-> None, delivery_time |-> None] :
        products \in {None, Some(<<>>),
                      Some(<<[group_hash |-> 1, product_index |-> 0, quantity |-> 1,
                              timestamp |-> 0, note |-> None]>>)}}

\* One store call of a call fails, or the deletion of the first link.
CartFaults ==
    {NoCartFault,
     [NoCartFault EXCEPT !.get = "err"],
     [NoCartFault EXCEPT !.get = "none"],
     [NoCartFault EXCEPT !.read_links = "err"],
     [NoCartFault EXCEPT !.create_entry = "err"],
     [NoCartFault EXCEPT !.get_links = "err"],
     [NoCartFault EXCEPT !.delete_err = {1}],
     [NoCartFault EXCEPT !.create_link = "err"],
     [NoCartFault EXCEPT !.order_entry = "err"],
     [NoCartFault EXCEPT !.order_link = "err"],
     [NoCartFault EXCEPT !.update_entry = "err"]}

\* The faults of the deletion of links only.
DeleteFaults == {NoCartFault, [NoCartFault EXCEPT !.delete_err = {1}]}

\* The faults a call meets: of Faults, those that make one of the store
\* calls named in calls fail, within the budget of failed store calls.
FaultsOf(Faults, calls) ==
    {f \in Faults :
        /\ CartFaultCount(f) <= MaxFaults - faults
        /\ \A c \in DOMAIN f : f[c] # NoCartFault[c] => c \in calls}

\* A call of replace_private_cart.
ReplacePrivateCart(Faults, cap) ==
    /\ Writable
    /\ UNCHANGED inflight
    /\ Cardinality(CartEntries(dht)) < cap
    /\ \E input \in ReplaceInputs(dht) :
       \E f \in FaultsOf(Faults, {"create_entry", "get_links", "delete_err",
                                  "create_link"}) :
         LET Returned(r) ==
                 /\ dht' = r.dht
                 /\ faults' = faults + CartFaultCount(f)
                 /\ last' = [op |-> "replace_private_cart", input |-> input,
                             fault |-> f, ok |-> r.ok, cart |-> Some(r.cart)]
         IN Returned(replace_private_cart_impl(dht, input, f))

\* A call of add_to_private_cart.
AddToPrivateCart(Faults, cap) ==
    /\ Writable
    /\ UNCHANGED inflight
    /\ Cardinality(CartEntries(dht)) < cap
    /\ \E input \in AddInputs, now \in Now(dht) :
       \E f \in FaultsOf(Faults, {"get", "read_links", "create_entry", "get_links",
                                  "delete_err", "create_link"}) :
         LET Returned(r) ==
                 /\ dht' = r.dht
                 /\ faults' = faults + CartFaultCount(f)
                 /\ last' = [op |-> "add_to_private_cart", input |-> input,
                             fault |-> f, ok |-> r.ok, cart |-> r.cart]
         IN Returned(add_to_private_cart_impl(dht, input, now, f))

\* A call of checkout_cart.
CheckoutCart(Faults, cap) ==
    /\ Writable
    /\ UNCHANGED inflight
    /\ Cardinality(CartEntries(dht)) < cap
    /\ \E input \in CheckoutInputs, now \in Now(dht) :
       \E f \in FaultsOf(Faults, {"order_entry", "order_link", "create_entry",
                                  "get_links", "delete_err", "create_link"}) :
         LET Returned(r) ==
                 /\ dht' = r.dht
                 /\ faults' = faults + CartFaultCount(f)
                 /\ last' = [op |-> "checkout_cart", input |-> input,
                             fault |-> f, ok |-> r.ok, error |-> r.error,
                             hash |-> r.hash, cart |-> r.cart]
         IN Returned(checkout_cart_impl(dht, input, now, f))

\* A call of return_to_shopping with the hash of a record of the log or
\* a hash that has none.
ReturnToShopping(Faults, cap) ==
    /\ Writable
    /\ UNCHANGED inflight
    /\ Cardinality(CartEntries(dht)) < cap
    /\ \E cart_hash \in 1..(Len(dht) + 1) :
       \E f \in FaultsOf(Faults, {"get", "update_entry", "get_links", "delete_err",
                                  "create_link"}) :
         LET Returned(r) ==
                 /\ dht' = r.dht
                 /\ faults' = faults + CartFaultCount(f)
                 /\ last' = [op |-> "return_to_shopping", cart_hash |-> cart_hash,
                             fault |-> f, ok |-> r.ok, error |-> r.error]
         IN Returned(return_to_shopping_impl(dht, cart_hash, f))

\* A call of get_private_cart.
GetPrivateCart ==
    /\ Writable
    /\ UNCHANGED inflight
    /\ \E now \in Now(dht) :
       \E f \in FaultsOf(CartFaults, {"get", "read_links"}) :
         /\ last' = [op |-> "get_private_cart", fault |-> f, now |-> now,
                     result |-> get_private_cart_impl(dht, now, f)]
         /\ UNCHANGED <<dht, faults>>

\* A call of get_checked_out_carts.
GetCheckedOutCarts ==
    /\ Writable
    /\ UNCHANGED inflight
    /\ \E f \in FaultsOf(CartFaults, {"get", "get_links"}) :
         /\ last' = [op |-> "get_checked_out_carts", fault |-> f,
                     result |-> get_checked_out_carts_impl(dht, f)]
         /\ UNCHANGED <<dht, faults>>

\* The private cart is written by calls that return Ok: the deletion of
\* a link may fail inside replace_private_cart, which passes it over.
NextCart ==
    \/ ReplacePrivateCart(DeleteFaults, MaxCartEntries)
    \/ AddToPrivateCart({NoCartFault}, MaxCartEntries)
    \/ CheckoutCart({NoCartFault}, MaxCartEntries)
    \/ GetPrivateCart

SpecCart == Init /\ [][NextCart]_vars

\* Carts are written and checked out while store calls fail.
NextCheckout ==
    \/ ReplacePrivateCart(DeleteFaults, MaxCartEntries)
    \/ CheckoutCart(CartFaults, MaxCartEntries)

SpecCheckout == Init /\ [][NextCheckout]_vars

\* Orders are made, returned and listed while store calls fail.
NextOrders ==
    \/ CheckoutCart({NoCartFault}, MaxOrderEntries)
    \/ ReturnToShopping(CartFaults, MaxOrderEntries)
    \/ GetCheckedOutCarts

SpecOrders == Init /\ [][NextOrders]_vars

(******************************* properties ********************************)

\* The most specific path of the primary categorization of a stored group.
GroupPath(group) ==
    specific_path(<<group.category, UnwrapOrDefault(group.subcategory),
                    UnwrapOrDefault(group.product_type)>>)

\* The groups of the log whose primary categorization is that of path.
GroupsOfPath(d, path) == {h \in GroupHashes(d) : GroupPath(GroupOf(d, h)) = path}

\* The CreateLink actions of the log at a node, deleted or not.
LinksEverAt(d, base) == {i \in DOMAIN d : IsCreateLink(d, i) /\ d[i].base = base}

\* Every group link at the path is the link of a group whose primary
\* categorization is that of the path.
OwnLinksOnly(d, path) ==
    \A i \in LinksEverAt(d, path_entry_hash(path)) :
        d[i].target \in GroupsOfPath(d, path)

\* C1: at a path that holds no group links of other categorizations, the
\* k-th group created with that primary categorization, by one call after
\* another or by one call of more than PRODUCTS_PER_GROUP products, has
\* chunk id k - 1 when every store call succeeds.
C1_SequentialChunkIds ==
    \A h \in GroupHashes(dht) :
        LET path == GroupPath(GroupOf(dht, h))
        IN OwnLinksOnly(dht, path) =>
             GroupOf(dht, h).chunk_id
                 = Cardinality({g \in GroupsOfPath(dht, path) : g < h})

\* Three groups of one categorization, the last two made by one call of
\* more than PRODUCTS_PER_GROUP products.
C1_Witness ==
    /\ last.op = "create_product_batch"
    /\ Len(last.products) > PRODUCTS_PER_GROUP
    /\ Len(last.all_group_hashes) = 2
    /\ \E h \in GroupHashes(dht) :
          /\ OwnLinksOnly(dht, GroupPath(GroupOf(dht, h)))
          /\ GroupOf(dht, h).chunk_id = 2
          /\ Cardinality(GroupsOfPath(dht, GroupPath(GroupOf(dht, h)))) = 3

\* The group made by the last call, a call of one chunk.
LastGroup == last.all_group_hashes[1]

LastMadeGroup ==
    /\ last.op = "create_product_batch"
    /\ Len(last.plan) = 1
    /\ Len(last.all_group_hashes) = 1

\* The chunk ids on the group links that were at the specific path of
\* group h before h was created.
IdsBefore(d, h) ==
    {chunk_id_of_tag(d[i].tag) :
        i \in {j \in LinksEverAt(d, path_entry_hash(GroupPath(GroupOf(d, h)))) : j < h}}

\* C2 as claimed: whatever store calls fail, the chunk id of a new group
\* is greater than every chunk id already on a group link at its specific
\* path.
C2_NeverReused ==
    \A h \in GroupHashes(dht) :
        \A id \in IdsBefore(dht, h) : id < GroupOf(dht, h).chunk_id

\* C2 amended: when the lookup of the latest group of the specific path
\* answers, the chunk id of the new group is greater than every chunk id
\* already on a group link at that path, whatever other store calls fail;
\* when the lookup fails or finds no record, the chunk id is 0.
C2_NeverReusedWhenLookupAnswers ==
    LastMadeGroup =>
        IF last.plan[1].lookup = "ok"
        THEN \A id \in IdsBefore(dht, LastGroup) :
                 id < GroupOf(dht, LastGroup).chunk_id
        ELSE GroupOf(dht, LastGroup).chunk_id = 0

\* A group made after another of its path, its lookup answering, while a
\* link of the new group fails.
C2_Witness ==
    /\ LastMadeGroup
    /\ last.plan[1].lookup = "ok"
    /\ FaultCount(last.plan[1]) > 0
    /\ IdsBefore(dht, LastGroup) # {}
    /\ GroupOf(dht, LastGroup).chunk_id = 1

\* The live group links of a node.
LiveLinksAt(d, base) == {i \in LinksEverAt(d, base) : IsLiveLink(d, i)}

\* The position of link i among the live links of its node sorted by the
\* chunk id of the tag, links of equal chunk id in the order of creation.
Position(d, i) ==
    Cardinality({j \in LiveLinksAt(d, d[i].base) :
        \/ chunk_id_of_tag(d[j].tag) < chunk_id_of_tag(d[i].tag)
        \/ chunk_id_of_tag(d[j].tag) = chunk_id_of_tag(d[i].tag) /\ j < i})

\* The link at a position of a node.
LinkAtPosition(d, base, pos) ==
    CHOOSE i \in LiveLinksAt(d, base) : Position(d, i) = pos

\* The groups whose links are at positions offset .. offset + limit - 1.
ExpectedPage(d, base, offset, limit) ==
    [k \in 1..Max(0, Min(limit, Cardinality(LiveLinksAt(d, base)) - offset)) |->
        d[LinkAtPosition(d, base, offset + k - 1)].target]

\* The last call listed a path and returned.
Listed ==
    /\ last.op = "get_products_by_category"
    /\ last.result.ok

ListedBase == path_entry_hash(Unwrap(base_path(last.params)))

\* C3: get_products_by_category returns the groups whose links are at
\* positions offset .. offset + limit - 1 of the links of the path sorted
\* by the chunk id of the tag; with offset 1 and limit 1 after three
\* creations at one path it returns the second group created.
C3_PageOfSortedLinks ==
    Listed =>
        /\ last.result.product_groups
              = ExpectedPage(dht, ListedBase, last.params.offset, last.params.limit)
        /\ (/\ last.params.offset = 1
            /\ last.params.limit = 1
            /\ Cardinality(GroupHashes(dht)) = 3
            /\ \A h \in GroupHashes(dht) :
                  /\ path_entry_hash(GroupPath(GroupOf(dht, h))) = ListedBase
                  /\ Cardinality({i \in LiveLinksAt(dht, ListedBase) :
                                    dht[i].target = h}) = 1)
           => \E h \in GroupHashes(dht) :
                 /\ Cardinality({g \in GroupHashes(dht) : g < h}) = 1
                 /\ last.result.product_groups = <<h>>

\* A page out of links that get_links does not return in the order of
\* their chunk ids.
C3_Witness ==
    /\ Listed
    /\ last.params.offset = 1
    /\ last.params.limit = 2
    /\ Len(last.result.product_groups) = 2
    /\ \E i, j \in LiveLinksAt(dht, ListedBase) :
          i < j /\ chunk_id_of_tag(dht[j].tag) < chunk_id_of_tag(dht[i].tag)

\* C4 as claimed: total_groups is the number of group links of the path
\* and has_more is true exactly when offset + limit is less than it, for
\* every offset and limit of the width of usize.
C4_TotalAndHasMore ==
    (last.op = "get_products_by_category" /\ base_path(last.params) # None) =>
        /\ last.result.ok
        /\ last.result.total_groups = Cardinality(LiveLinksAt(dht, ListedBase))
        /\ last.result.has_more
              = (last.params.offset + last.params.limit
                   < Cardinality(LiveLinksAt(dht, ListedBase)))

\* The pages of a path from an offset on, limit links at a time, until
\* has_more is false.
RECURSIVE PagesFrom(_, _, _, _)
PagesFrom(d, pp, limit, offset) ==
    LET Rest(r) ==
            r.product_groups
              \o (IF r.has_more THEN PagesFrom(d, pp, limit, offset + limit) ELSE <<>>)
    IN Rest(get_products_by_category(
                d, [category |-> pp.category, subcategory |-> pp.subcategory,
                    product_type |-> pp.product_type, offset |-> offset,
                    limit |-> limit],
                TRUE, NoFetchFault, FALSE))

\* The number of times x occurs in a sequence.
Occurrences(s, x) == Cardinality({k \in DOMAIN s : s[k] = x})

\* The pages of the path that the last call began to list, the page it
\* returned first.
PagesOfLast ==
    last.result.product_groups
      \o (IF last.result.has_more
          THEN PagesFrom(dht, last.params, last.params.limit, last.params.limit)
          ELSE <<>>)

\* C5: for every path and every limit of at least 1, the pages at offsets
\* 0, limit, 2 * limit, ... until has_more is false hold every group link
\* of the path once, also when links carry the same chunk id.
C5_PagesPartition ==
    (Listed /\ last.params.offset = 0 /\ last.params.limit >= 1) =>
        /\ Len(PagesOfLast) = Cardinality(LiveLinksAt(dht, ListedBase))
        /\ \A h \in DOMAIN dht :
              Occurrences(PagesOfLast, h)
                = Cardinality({i \in LiveLinksAt(dht, ListedBase) : dht[i].target = h})

\* Three links at a path, two of them of the same chunk id, read in two
\* pages of two links.
C5_Witness ==
    /\ Listed
    /\ last.params.offset = 0
    /\ last.params.limit = 2
    /\ last.result.has_more
    /\ Len(PagesOfLast) = 3
    /\ \E i, j \in LiveLinksAt(dht, ListedBase) : i # j /\ dht[i].tag = dht[j].tag

\* The products of the groups that get_products_by_category returns for
\* a path with offset 0 and the limit total_groups.
ProductsListed(d, pp) ==
    LET All(first) ==
            get_products_by_category(
                d, [category |-> pp.category, subcategory |-> pp.subcategory,
                    product_type |-> pp.product_type, offset |-> 0,
                    limit |-> first.total_groups],
                TRUE, NoFetchFault, FALSE).product_groups
        Sum(groups) == SumSeq([k \in DOMAIN groups |-> Len(GroupOf(d, groups[k]).products)])
    IN Sum(All(get_products_by_category(
                   d, [category |-> pp.category, subcategory |-> pp.subcategory,
                       product_type |-> pp.product_type, offset |-> 0, limit |-> 0],
                   TRUE, NoFetchFault, FALSE)))

\* C6: the counts of get_all_group_counts_for_path sum to the products of
\* the groups get_products_by_category returns for the same path with
\* offset 0 and limit total_groups.
C6_CountsAgree ==
    (last.op = "get_all_group_counts_for_path" /\ last.result.ok) =>
        SumSeq(last.result.counts) = ProductsListed(dht, last.params)

\* Counts of a path with a group of PRODUCTS_PER_GROUP products and a
\* smaller one.
C6_Witness ==
    /\ last.op = "get_all_group_counts_for_path"
    /\ last.result.ok
    /\ Len(last.result.counts) >= 2
    /\ SumSeq(last.result.counts) > PRODUCTS_PER_GROUP

\* The paths of the levels of a categorization: the main category, the
\* subcategory when there is one, the product type when both are there.
LevelPaths(main, sub, type) ==
    {MainPathStr(main)}
    \cup (IF sub # None THEN {SubPathStr(main, Unwrap(sub))} ELSE {})
    \cup (IF sub # None /\ type # None
          THEN {TypePathStr(main, Unwrap(sub), Unwrap(type))} ELSE {})

\* The last call recategorized a group and returned Ok.
Recategorized ==
    /\ last.op = "recategorize_product_group"
    /\ last.ok

\* C7 as claimed: after recategorize_product_group returns Ok, no path of
\* the levels of the old categorization of the group holds a group link
\* to the original group.
C7_OldPathsCleared ==
    Recategorized =>
        LET old == GroupOf(dht, last.input.group_hash)
        IN \A path \in LevelPaths(old.category, old.subcategory, old.product_type) :
             \A i \in LiveLinksAt(dht, path_entry_hash(path)) :
                 dht[i].target # last.input.group_hash

\* The groups get_products_by_category returns for all of a path.
ListedAt(d, pp) ==
    get_products_by_category(
        d, [category |-> pp.category, subcategory |-> pp.subcategory,
            product_type |-> pp.product_type, offset |-> 0,
            limit |-> Cardinality(LiveLinksAt(d, path_entry_hash(Unwrap(base_path(pp)))))],
        TRUE, NoFetchFault, FALSE).product_groups

\* What a step of recategorize_product_group that returns Ok leaves.
RecategorizedStep ==
    (last'.op = "recategorize_product_group" /\ last'.ok) =>
        LET old == last'.input.group_hash
            new == last'.new_group_hash
            new_paths == LevelPaths(last'.input.new_category,
                                    last'.input.new_subcategory,
                                    last'.input.new_product_type)
        IN /\ new \notin DOMAIN dht
           /\ new # old
           /\ IsCreate(dht', new)
           /\ GroupOf(dht', new).chunk_id = GroupOf(dht, old).chunk_id
           /\ \A path \in new_paths :
                 \E i \in LiveLinksAt(dht', path_entry_hash(path)) :
                     /\ i \notin DOMAIN dht
                     /\ dht'[i].target = new
                     /\ Len(dht'[i].tag) = 4
                     /\ chunk_id_of_tag(dht'[i].tag) = GroupOf(dht, old).chunk_id
           /\ \A pp \in PathParams :
                 (base_path(pp) # None /\ Unwrap(base_path(pp)) \in new_paths)
                    => Occurrences(ListedAt(dht', pp), new) = 1

\* C8: recategorize_product_group writes a new group, not the original,
\* with the chunk id of the original, and links it at every path of the
\* new categorization with that chunk id as the tag, so that listing
\* such a path returns the new group.
C8_NewGroupKeepsChunkId == [][RecategorizedStep]_vars

\* A group of chunk id 1 recategorized to a path that held no link: a
\* chunk id taken from the links of the new path would be 0.
C8_Witness ==
    /\ Recategorized
    /\ GroupOf(dht, last.new_group_hash).chunk_id = 1
    /\ GroupOf(dht, last.input.group_hash).category # last.input.new_category
    /\ Cardinality(LinksEverAt(dht, path_entry_hash(
                       GroupPath(GroupOf(dht, last.new_group_hash))))) = 1

\* The input that the groups of the last call take their categorizations
\* from: the batches have one categorization.
LastInput == normalize_input(last.products[1])

\* The last call created groups.
Created ==
    /\ last.op = "create_product_batch"
    /\ last.all_group_hashes # <<>>

\* The paths that can be read and hold a link to group h.
ReadPathsOf(d, h) ==
    {pp \in ReadPaths :
        /\ base_path(pp) # None
        /\ \E i \in LiveLinksAt(d, path_entry_hash(Unwrap(base_path(pp)))) :
               d[i].target = h}

RECURSIVE ProductsOf(_, _)
ProductsOf(d, groups) ==
    IF groups = {} THEN 0
    ELSE LET g == CHOOSE x \in groups : TRUE
         IN Len(GroupOf(d, g).products) + ProductsOf(d, groups \ {g})

\* The sum of the counts of a path.
AggregateAt(d, pp) ==
    SumSeq(get_all_group_counts_for_path(d, pp, TRUE, [i \in 1..Len(d) |-> "ok"]).counts)

\* C9 as claimed: whatever its additional categorizations, a new group is
\* listed once at every path it is indexed under, and the counts of the
\* path hold its products once.
C9_ListedOnce ==
    Created =>
        \A k \in DOMAIN last.all_group_hashes :
            \A pp \in ReadPathsOf(dht, last.all_group_hashes[k]) :
                /\ Occurrences(ListedAt(dht, pp), last.all_group_hashes[k]) = 1
                /\ AggregateAt(dht, pp)
                     = ProductsOf(dht, {dht[i].target :
                           i \in LiveLinksAt(dht, path_entry_hash(Unwrap(base_path(pp))))})

\* The number of times the categorizations of an input derive a path.
Derivations(input, path) ==
    (IF path \in LevelPaths(input.main_category, input.subcategory, input.product_type)
     THEN 1 ELSE 0)
    + Cardinality({k \in DOMAIN input.additional_categorizations :
          path \in LevelPaths(input.additional_categorizations[k].main_category,
                              input.additional_categorizations[k].subcategory,
                              input.additional_categorizations[k].product_type)})

\* C9 amended: a new group is listed at a path once for each time its
\* primary and additional categorizations derive the path, and the counts
\* of the path hold the products of a group once per link.
C9_ListedOncePerDerivation ==
    Created =>
        \A k \in DOMAIN last.all_group_hashes :
            \A pp \in ReadPaths :
                base_path(pp) # None =>
                    /\ Occurrences(ListedAt(dht, pp), last.all_group_hashes[k])
                         = Derivations(LastInput, Unwrap(base_path(pp)))
                    /\ AggregateAt(dht, pp)
                         = SumSeq([n \in DOMAIN ListedAt(dht, pp) |->
                                     Len(GroupOf(dht, ListedAt(dht, pp)[n]).products)])

\* A group whose additional categorization is its primary one, listed
\* twice at the path of both, and a group listed once at each of two
\* paths of different categories before it.
C9_Witness ==
    /\ Created
    /\ LastInput.additional_categorizations # <<>>
    /\ \E pp \in ReadPaths :
          /\ base_path(pp) # None
          /\ Occurrences(ListedAt(dht, pp), last.all_group_hashes[1]) = 2
    /\ \E h \in GroupHashes(dht) :
          /\ Cardinality(ReadPathsOf(dht, h)) = 2
          /\ \A pp \in ReadPathsOf(dht, h) : Occurrences(ListedAt(dht, pp), h) = 1
          /\ \E pp \in ReadPathsOf(dht, h) : pp.category = "Snacks"

\* C10: in create_links_for_group every path stands alone: whichever
\* paths fail in the hash of the path or in create_link, a link tagged
\* with the chunk id is created at every other path, and no link is
\* deleted.
C10_PathsIndependent ==
    LastMadeGroup =>
        LET paths == get_paths(LastInput)
            failing == last.plan[1].path_hash_err \cup last.plan[1].create_link_err
        IN /\ \A i \in DOMAIN dht : dht[i].type # "DeleteLink"
           /\ \A k \in DOMAIN paths :
                 Cardinality({i \in LiveLinksAt(dht, path_entry_hash(paths[k])) :
                     /\ dht[i].target = LastGroup
                     /\ dht[i].tag = to_le_bytes(GroupOf(dht, LastGroup).chunk_id)})
                   = Cardinality({n \in DOMAIN paths :
                         paths[n] = paths[k] /\ n \notin failing})

\* The first and the last of three paths fail, one in the hash of the
\* path and one in create_link; the path between them has its link.
C10_Witness ==
    /\ LastMadeGroup
    /\ Len(get_paths(LastInput)) = 3
    /\ last.plan[1].path_hash_err = {1}
    /\ last.plan[1].create_link_err = {3}
    /\ \E i \in LiveLinksAt(dht, path_entry_hash(get_paths(LastInput)[2])) :
          dht[i].target = LastGroup

\* The last call was a create_product_group that made some of the links
\* of its group and failed to make others.
PartiallyIndexed ==
    /\ last.op = "create_product_group"
    /\ last.ok
    /\ LET failed_links == Cardinality(last.fault.path_hash_err
                                       \cup last.fault.create_link_err)
       IN 0 < failed_links /\ failed_links < Len(group_paths(last.input))

\* What the caller of create_product_group receives.
ReturnedOf(r) == <<r.ok, r.error, r.hash>>

PartialIndexStep ==
    PartiallyIndexed' =>
        ReturnedOf(last') # ReturnedOf(create_product_group(dht, last'.input, NoFault))

\* C11: when some but not all links of a group fail to be created, the
\* value returned by create_product_group tells the caller so: it differs
\* from the value the same call returns when every link is made.
C11_PartialIndexSurfaced == [][PartialIndexStep]_vars

Resolved == last.op = "get_products_by_references" /\ last.get_ok

\* A reference of the last call to a group of the log, beyond its products.
OutOfRange(i) ==
    /\ IsCreate(dht, last.references[i].group_hash)
    /\ last.references[i].index >= Len(GroupOf(dht, last.references[i].group_hash).products)

\* C13: get_products_by_references fails with IndexOutOfRange when a
\* reference points beyond the products of its group; when every
\* reference points at a product of a group, each of them is answered.
C13_OutOfRangeRefused ==
    Resolved =>
        /\ (\E i \in DOMAIN last.references : OutOfRange(i))
              => (~last.result.ok /\ last.result.error = "IndexOutOfRange")
        /\ (\A i \in DOMAIN last.references :
               IsCreate(dht, last.references[i].group_hash) /\ ~OutOfRange(i))
              => (/\ last.result.ok
                  /\ last.result.total = Len(last.references)
                  /\ \A i \in DOMAIN last.references :
                        Occurrences(last.result.products, last.references[i].group_hash)
                          = Cardinality({k \in DOMAIN last.references :
                                last.references[k].group_hash
                                  = last.references[i].group_hash}))

\* The positions, in the plan of the last call, of the chunks whose
\* create_product_group answered Ok, in order.
ChunksMade ==
    SelectSeq([n \in DOMAIN last.plan |-> n],
              LAMBDA n : last.plan[n].create_entry = "ok")

\* The links of the log that point at a group.
LinksTo(d, h) == {i \in DOMAIN d : IsCreateLink(d, i) /\ d[i].target = h}

\* C12: in create_product_batch, a chunk whose group cannot be created
\* stops neither the chunks before it nor the chunks after it: every
\* chunk of the call is attempted, each chunk whose create_product_group
\* answers has its group in the log with the links of every path that did
\* not fail, whether chunks before or after it failed, and the call ends
\* having counted the products of the failed chunks.
C12_FailedChunkAlone ==
    last.op = "create_product_batch" =>
        /\ Len(last.plan) = total_chunks(last.products)
        /\ Len(last.all_group_hashes) = Len(ChunksMade)
        /\ last.failed = Len(last.plan) - Len(ChunksMade)
        /\ \A i \in DOMAIN last.all_group_hashes :
             /\ IsCreate(dht, last.all_group_hashes[i])
             /\ Cardinality(LinksTo(dht, last.all_group_hashes[i]))
                  = chunk_paths(last.products, last.order)[ChunksMade[i]]
                    - Cardinality(last.plan[ChunksMade[i]].path_hash_err
                                  \cup last.plan[ChunksMade[i]].create_link_err)

\* A call of three chunks whose second chunk failed: the first group is
\* kept with its links, the third is made and linked.
C12_Witness ==
    /\ last.op = "create_product_batch"
    /\ Len(last.plan) = 3
    /\ last.plan[1] = NoFault
    /\ last.plan[2].create_entry = "err"
    /\ last.plan[3] = NoFault
    /\ Len(last.all_group_hashes) = 2
    /\ \A i \in 1..2 : LinksTo(dht, last.all_group_hashes[i]) # {}

\* The last call counted the groups of a node while gets may fail.
CountedWith == last.op = "get_all_group_counts_for_path" /\ "gets" \in DOMAIN last

\* The node read by the last call.
ReadBase == path_entry_hash(Unwrap(base_path(last.params)))

\* The target of the link at position k (from 1) of the node read.
TargetAt(k) == dht[LinkAtPosition(dht, ReadBase, k - 1)].target

\* The positions whose group the last call could fetch and read.
Readable ==
    SelectSeq([k \in 1..Cardinality(LiveLinksAt(dht, ReadBase)) |-> k],
              LAMBDA k : last.gets[k] = "ok" /\ IsCreate(dht, TargetAt(k)))

\* C15: get_all_group_counts_for_path answers Ok whichever gets fail,
\* find nothing or find a record that is no ProductGroup, with exactly
\* the product counts of the other groups, in the order of the chunk ids.
C15_CountsSkipUnreadable ==
    CountedWith =>
        /\ last.result.ok
        /\ last.result.counts
             = [i \in DOMAIN Readable |-> Len(GroupOf(dht, TargetAt(Readable[i])).products)]

\* Three links at the node: the get of one fails, one points at a record
\* that is no group, one group is counted.
C15_Witness ==
    /\ CountedWith
    /\ Cardinality(LiveLinksAt(dht, ReadBase)) = 3
    /\ \E k \in 1..3 : last.gets[k] = "err"
    /\ \E k \in 1..3 : last.gets[k] = "ok" /\ ~IsCreate(dht, TargetAt(k))
    /\ Len(last.result.counts) = 1

\* The chunk id a tag stands for when a tag shorter than 4 bytes is read
\* as 0.
DefensiveId(tag) ==
    IF Len(tag) < 4 THEN 0
    ELSE tag[1] + 256 * tag[2] + 65536 * tag[3] + 16777216 * tag[4]

\* The position of link i among the live links of its node in the order
\* of DefensiveId, links of equal id in the order of creation.
DefensivePosition(d, i) ==
    Cardinality({j \in LiveLinksAt(d, d[i].base) :
        \/ DefensiveId(d[j].tag) < DefensiveId(d[i].tag)
        \/ DefensiveId(d[j].tag) = DefensiveId(d[i].tag) /\ j < i})

\* The target of the link at position k (from 1) of the node read, in
\* that order.
DefensiveTargetAt(k) ==
    dht[CHOOSE i \in LiveLinksAt(dht, ReadBase) : DefensivePosition(dht, i) = k - 1].target

\* The positions, in that order, whose target is a group.
GroupPositions ==
    SelectSeq([k \in 1..Cardinality(LiveLinksAt(dht, ReadBase)) |-> k],
              LAMBDA k : IsCreate(dht, DefensiveTargetAt(k)))

\* C19: a link with a tag shorter than 4 bytes is ordered as chunk id 0
\* and stays in the enumeration of every read that orders links by chunk
\* id: with the store answering, get_products_by_category returns the
\* page of all links of the node so ordered and counts all of them in
\* total_groups, get_all_group_counts_for_path counts the groups so
\* ordered, get_product_count_for_group counts the group at position
\* offset of that order, and none of them fails.
C19_ShortTagIsChunkZero ==
    /\ last.op = "get_products_by_category" =>
          /\ last.result.ok
          /\ last.result.total_groups = Cardinality(LiveLinksAt(dht, ReadBase))
          /\ last.result.product_groups
               = [k \in 1..Max(0, Min(last.params.limit,
                                      Cardinality(LiveLinksAt(dht, ReadBase))
                                        - last.params.offset)) |->
                     DefensiveTargetAt(last.params.offset + k)]
    /\ (CountedWith /\ \A k \in DOMAIN last.gets : last.gets[k] = "ok") =>
          /\ last.result.ok
          /\ last.result.counts
               = [i \in DOMAIN GroupPositions |->
                     Len(GroupOf(dht, DefensiveTargetAt(GroupPositions[i])).products)]
    /\ (last.op = "get_product_count_for_group" /\ last.got = "ok") =>
          /\ last.result.ok
          /\ last.result.count
               = IF /\ last.params.offset < Cardinality(LiveLinksAt(dht, ReadBase))
                    /\ IsCreate(dht, DefensiveTargetAt(last.params.offset + 1))
                 THEN Len(GroupOf(dht, DefensiveTargetAt(last.params.offset + 1)).products)
                 ELSE 0

\* A page of three links: the link with the short tag was made last and
\* is listed before the link of chunk id 1.
C19_Witness ==
    /\ last.op = "get_products_by_category"
    /\ last.params.offset = 0
    /\ Len(last.result.product_groups) = 3
    /\ last.result.total_groups = 3
    /\ \E i, j \in LiveLinksAt(dht, ReadBase) :
          /\ i < j
          /\ Len(dht[j].tag) < 4
          /\ DefensiveId(dht[i].tag) = 1
          /\ dht[j].target # dht[i].target
          /\ last.result.product_groups[2] = dht[j].target
          /\ last.result.product_groups[3] = dht[i].target

\* The node at which the next chunk id of the one input of a call is
\* looked up.
AllocBase(products) ==
    path_entry_hash(specific_path(group_key(normalize_input(products[1]))))

\* The greatest chunk id over the links of a node, short tags read as 0.
MaxIdAt(d, base) ==
    CHOOSE m \in {DefensiveId(d[i].tag) : i \in LiveLinksAt(d, base)} :
        \A i \in LiveLinksAt(d, base) : DefensiveId(d[i].tag) <= m

AllocStep ==
    (/\ last'.op = "create_product_batch"
     /\ Len(last'.all_group_hashes) = 1
     /\ last'.plan[1].lookup \notin {"hash_err", "links_err"}
     /\ LiveLinksAt(dht, AllocBase(last'.products)) # {})
    => GroupOf(dht', last'.all_group_hashes[1]).chunk_id
         = MaxIdAt(dht, AllocBase(last'.products)) + 1

\* C17: at a path that has a group link, the chunk id given to a new
\* group is 1 plus the greatest chunk id over all links of the path, a
\* tag shorter than 4 bytes read as 0, whether or not the group of the
\* latest link can be fetched.
C17_NextIdFromAllLinks == [][AllocStep]_vars

\* The last call made the group of its one chunk although get_links
\* failed in the lookup of the latest group.
MadeWithoutLookup ==
    /\ last.op = "create_product_batch"
    /\ Len(last.plan) = 1
    /\ last.plan[1].lookup = "links_err"
    /\ last.plan[1].create_entry = "ok"

\* C18: when get_links fails in the lookup of the latest group,
\* create_product_batch neither fails nor skips the chunk: the group is
\* created with chunk id 0 and linked at every path whose link calls
\* answer, each link tagged with chunk id 0.
C18_FallbackToZero ==
    MadeWithoutLookup =>
        /\ last.ok
        /\ last.failed = 0
        /\ Len(last.all_group_hashes) = 1
        /\ IsCreate(dht, LastGroup)
        /\ GroupOf(dht, LastGroup).chunk_id = 0
        /\ Cardinality(LinksTo(dht, LastGroup))
             = chunk_paths(last.products, last.order)[1]
               - Cardinality(last.plan[1].path_hash_err \cup last.plan[1].create_link_err)
        /\ \A i \in LinksTo(dht, LastGroup) : dht[i].tag = <<0, 0, 0, 0>>

\* The group is made and linked at a path that already had a group.
C18_Witness ==
    /\ MadeWithoutLookup
    /\ last.ok
    /\ LinksTo(dht, LastGroup) # {}
    /\ \E i \in LiveLinksAt(dht, AllocBase(last.products)) :
          dht[i].target # LastGroup /\ dht[i].target < LastGroup

\* The last call read the records of the links of a node by batched gets.
Fetching ==
    /\ last.op \in {"get_all_category_products", "get_products_by_category"}
    /\ "fetch" \in DOMAIN last

\* The hashes the last call handed to concurrent_get_records.
HashesFetched ==
    IF last.op = "get_all_category_products"
    THEN [k \in DOMAIN get_links(dht, ReadBase) |-> get_links(dht, ReadBase)[k].target]
    ELSE ExpectedPage(dht, ReadBase, last.params.offset, last.params.limit)

\* The batched get that takes the k-th hash.
BatchOf(k) == (k - 1) \div BATCH_SIZE + 1

\* The hashes of the batched gets that answered, less those for which
\* the store found no record.
HashesAnswered ==
    SelectSeq(HashesFetched,
              LAMBDA h : /\ \E k \in DOMAIN HashesFetched :
                              /\ HashesFetched[k] = h
                              /\ BatchOf(k) # last.fetch.fail_batch
                         /\ h \notin last.fetch.none)

\* C16: when a batched get of concurrent_get_records fails,
\* get_all_category_products and get_products_by_category do not fail:
\* they answer Ok with the records of the batched gets that answered.
C16_OtherBatchesReturned ==
    (Fetching /\ HashesFetched # <<>>
       /\ last.fetch.fail_batch \in 1..BatchOf(Len(HashesFetched)))
    => /\ last.result.ok
       /\ last.result.product_groups = HashesAnswered

\* The place of a group in the page of the last call.
PlaceOf(h) == CHOOSE k \in DOMAIN last.result.product_groups :
                  last.result.product_groups[k] = h

\* Two links of the node listed, of equal chunk id, to two groups that
\* have no other link at the node.
Tied(i, j) ==
    /\ i < j
    /\ chunk_id_of_tag(dht[i].tag) = chunk_id_of_tag(dht[j].tag)
    /\ dht[i].target # dht[j].target
    /\ \A k \in LiveLinksAt(dht, ListedBase) :
          dht[k].target \in {dht[i].target, dht[j].target} => k \in {i, j}

\* The last call listed all links of its node.
ListedAll ==
    /\ Listed
    /\ last.params.offset = 0
    /\ last.params.limit >= Cardinality(LiveLinksAt(dht, ListedBase))

\* C20: links of equal chunk id are listed in the order in which get_links
\* returns them (the order of their creation): of two groups whose links
\* at the node have the same chunk id, get_products_by_category lists
\* first the one linked first.
C20_TiesInLinkOrder ==
    ListedAll =>
        \A i, j \in LiveLinksAt(dht, ListedBase) :
            Tied(i, j) => PlaceOf(dht[i].target) < PlaceOf(dht[j].target)

\* A listing of a node with two links of equal chunk id.
C20_Witness ==
    /\ ListedAll
    /\ \E i, j \in LiveLinksAt(dht, ListedBase) :
          /\ Tied(i, j)
          /\ PlaceOf(dht[i].target) + 1 = PlaceOf(dht[j].target)

(******************* C22: chunk ids at every path node *********************)

\* The nodes that hold a live group link.
LinkedNodes(d) == {d[i].base : i \in {j \in DOMAIN d : IsLiveLink(d, j)}}

\* The groups linked at a node.
GroupsLinkedAt(d, base) == {d[i].target : i \in LiveLinksAt(d, base)}

\* The chunk ids on the group links of a node.
IdsAt(d, base) == {chunk_id_of_tag(d[i].tag) : i \in LiveLinksAt(d, base)}

\* C22: with groups created one at a time and every store call
\* succeeding, at every node that holds group links (the node of the
\* primary categorization, its parent nodes and the nodes of additional
\* categorizations) two different groups carry different chunk ids and
\* the ids are 0 .. k-1, k the number of groups linked at the node.
C22_ContiguousAtEveryNode ==
    \A base \in LinkedNodes(dht) :
        /\ \A i, j \in LiveLinksAt(dht, base) :
              dht[i].target # dht[j].target =>
                  chunk_id_of_tag(dht[i].tag) # chunk_id_of_tag(dht[j].tag)
        /\ IdsAt(dht, base) = 0..(Cardinality(GroupsLinkedAt(dht, base)) - 1)

(************* C24: the original group record is left as it is *************)

\* What a call of recategorize_product_group on a group leaves of it.
OriginalKeptStep ==
    (last'.op = "recategorize_product_group"
     /\ IsCreate(dht, last'.input.group_hash)) =>
        LET h == last'.input.group_hash
        IN /\ get(dht', h, "ok") = [ok |-> TRUE, record |-> Some(h)]
           /\ IsProductGroup(dht', h)
           /\ GroupOf(dht', h).category = GroupOf(dht, h).category
           /\ GroupOf(dht', h).subcategory = GroupOf(dht, h).subcategory
           /\ GroupOf(dht', h).product_type = GroupOf(dht, h).product_type
           /\ GroupOf(dht', h).products = GroupOf(dht, h).products
           /\ GroupOf(dht', h).chunk_id = GroupOf(dht, h).chunk_id

\* C24: recategorize_product_group neither deletes nor changes the record
\* of the original group: after the call, whether it returned Ok or Err,
\* get of the original hash returns a ProductGroup with the category,
\* subcategory, product type, products and chunk id it had before.
C24_OriginalRecordKept == [][OriginalKeptStep]_vars

\* A call that returned Ok for a group of another category, after
\* deleting a link to it: the original is in the log next to the new one.
C24_Witness ==
    /\ Recategorized
    /\ IsCreate(dht, last.input.group_hash)
    /\ IsCreate(dht, last.new_group_hash)
    /\ last.new_group_hash # last.input.group_hash
    /\ GroupOf(dht, last.input.group_hash).category = "Produce"
    /\ GroupOf(dht, last.new_group_hash).category = "Snacks"
    /\ \E i \in DOMAIN dht :
          /\ dht[i].type = "DeleteLink"
          /\ i > last.input.group_hash
          /\ dht[dht[i].link_add_address].target = last.input.group_hash

(**************** C23: reachability only moves forward *********************)

\* The calls that write groups and links.
WriteOps == {"create_product_batch", "create_product_group",
             "recategorize_product_group"}

\* A group that had links and has none left.
Orphaned(d, h) ==
    /\ LinksTo(d, h) # {}
    /\ \A i \in LinksTo(d, h) : ~IsLiveLink(d, i)

\* A group that never had a link.
Unindexed(d, h) == LinksTo(d, h) = {}

\* What a step of a writing call does to the groups that were there.
ForwardStep ==
    last'.op \in WriteOps =>
        /\ \A i \in DOMAIN dht' \ DOMAIN dht :
              IsCreateLink(dht', i) =>
                  /\ dht'[i].target \notin DOMAIN dht
                  /\ IsCreate(dht', dht'[i].target)
        /\ \A h \in GroupHashes(dht) :
              /\ LinksTo(dht', h) = LinksTo(dht, h)
              /\ Orphaned(dht, h) => Orphaned(dht', h)
              /\ ~Unindexed(dht, h) => ~Unindexed(dht', h)

\* C23: create_product_batch, create_product_group and
\* recategorize_product_group create links only to the group whose record
\* the same call wrote: a group whose links have all been deleted gets no
\* link again, and a group that had a link is never without a link in its
\* history again.
C23_ReachabilityForward == [][ForwardStep]_vars

\* A group whose only link was deleted, and a later call that wrote a
\* group and a live link to it.
C23_Witness ==
    /\ last.op \in WriteOps
    /\ last.ok
    /\ \E h \in GroupHashes(dht), j \in DOMAIN dht, i \in DOMAIN dht :
          /\ Orphaned(dht, h)
          /\ dht[j].type = "DeleteLink"
          /\ dht[j].link_add_address \in LinksTo(dht, h)
          /\ i > j + 2
          /\ IsLiveLink(dht, i)
          /\ dht[i].target > j + 1

(******** C25: the links at the paths of additional categorizations ********)

\* The nodes a group was linked at that are no level of its primary
\* categorization: the paths of its additional categorizations.
AdditionalNodes(d, h) ==
    {d[i].base : i \in LinksTo(d, h)}
    \ {path_entry_hash(path) :
          path \in LevelPaths(GroupOf(d, h).category, GroupOf(d, h).subcategory,
                              GroupOf(d, h).product_type)}

\* C25: after recategorize_product_group returns Ok for a group created
\* with additional categorizations, no path of these additional
\* categorizations holds a link to the original group.
C25_AdditionalPathsCleared ==
    Recategorized =>
        \A i \in LinksTo(dht, last.input.group_hash) :
            dht[i].base \in AdditionalNodes(dht, last.input.group_hash)
                => ~IsLiveLink(dht, i)

(************************ C26: the paths of an input ***********************)

\* The categorizations of an input: the primary one, then the additional
\* ones in input order.
CategorizationsOf(input) ==
    <<Categorization(input.main_category, input.subcategory, input.product_type)>>
    \o input.additional_categorizations

\* The number of paths of one categorization.
Depth(c) ==
    IF c.subcategory = None THEN 1
    ELSE IF c.product_type = None THEN 2 ELSE 3

\* The number of paths of the categorizations before the k-th.
PathsBefore(cs, k) == SumSeq([j \in 1..(k - 1) |-> Depth(cs[j])])

\* The paths of the k-th categorization stand together at their place.
ExpandedAt(paths, cs, k) ==
    LET c == cs[k]
        at == PathsBefore(cs, k)
    IN /\ paths[at + 1] = <<"categories", c.main_category>>
       /\ Depth(c) >= 2 =>
             paths[at + 2] = <<"categories", c.main_category,
                               "subcategories", c.subcategory[1]>>
       /\ Depth(c) = 3 =>
             paths[at + 3] = <<"categories", c.main_category,
                               "subcategories", c.subcategory[1],
                               "types", c.product_type[1]>>

\* C26: get_paths returns the main path, then the subcategory path if
\* there is a subcategory, then the type path if there is a product type
\* too (a type without a subcategory adds nothing), for the primary
\* categorization and then for each additional categorization in input
\* order; nothing is deduplicated, and create_links_for_group makes one
\* link per path, so a path of two categorizations gets two links.
C26_PathsInOrder ==
    last.op = "get_paths" =>
        LET cs == CategorizationsOf(last.input)
        IN /\ Len(last.paths) = PathsBefore(cs, Len(cs) + 1)
           /\ \A k \in DOMAIN cs : ExpandedAt(last.paths, cs, k)
           /\ \A p \in Range(last.paths) :
                 Cardinality({i \in LinksTo(dht, last.hash) :
                                 dht[i].base = path_entry_hash(p)})
                     = Occurrences(last.paths, p)

\* An input whose two additional categorizations share the main path with
\* the primary one, one of them a type without subcategory: the main path
\* comes three times.
C26_Witness ==
    /\ last.op = "get_paths"
    /\ Len(last.input.additional_categorizations) = 2
    /\ last.input.subcategory # None
    /\ last.input.product_type # None
    /\ last.input.additional_categorizations[1]
          = Categorization("Produce", None, Some("Apples"))
    /\ last.input.additional_categorizations[2]
          = Categorization("Produce", Some("Fruit"), None)
    /\ Occurrences(last.paths, MainPathStr("Produce")) = 3
    /\ Cardinality(LinksTo(dht, last.hash)) = 6

(************************ C27: homogeneous groups **************************)

\* The inputs of the last call whose products a group holds.
InputsOf(h) ==
    {i \in DOMAIN last.products :
        \E k \in DOMAIN GroupOf(dht, h).products :
            GroupOf(dht, h).products[k].name = last.products[i].product.name}

\* C27: the products of a group created by create_product_batch were all
\* submitted with one primary categorization and one list of additional
\* categorizations, and the group is linked at the paths of that list.
C27_GroupsHomogeneous ==
    last.op = "create_product_batch" =>
        \A h \in Range(last.all_group_hashes) :
            \A i, j \in InputsOf(h) :
                /\ group_key(normalize_input(last.products[i]))
                      = group_key(normalize_input(last.products[j]))
                /\ last.products[i].additional_categorizations
                      = last.products[j].additional_categorizations
                /\ {dht[l].base : l \in LinksTo(dht, h)}
                      = {path_entry_hash(p) :
                            p \in Range(get_paths(normalize_input(last.products[i])))}

(******************** C28: one fetch per group hash ************************)

\* The references of the last call to a group hash whose index is within
\* the products of the group.
AnswerableFor(h) ==
    {i \in DOMAIN last.references :
        /\ last.references[i].group_hash = h
        /\ last.references[i].index < Len(GroupOf(dht, h).products)}

\* C28: a call of get_products_by_references hands each distinct group
\* hash of its references to the store once, however many references
\* share it, and when the store answers, every reference to a group is
\* answered by the record of that group.
C28_OneFetchPerGroup ==
    last.op = "get_products_by_references" =>
        /\ \A h \in Range(last.result.fetched) :
              Occurrences(last.result.fetched, h) = 1
        /\ Range(last.result.fetched)
              = {last.references[i].group_hash : i \in DOMAIN last.references}
        /\ last.get_ok =>
              \A h \in Range(last.result.fetched) \cap GroupHashes(dht) :
                  Occurrences(last.result.products, h)
                      = Cardinality(AnswerableFor(h))

\* Two references to one group, both answered from one fetch.
C28_Witness ==
    /\ last.op = "get_products_by_references"
    /\ last.get_ok
    /\ Len(last.references) = 2
    /\ last.references[1].group_hash = last.references[2].group_hash
    /\ Len(last.result.fetched) = 1
    /\ last.result.products
          = <<last.references[1].group_hash, last.references[1].group_hash>>

(******************* C29: the records a call returns ***********************)

\* What a call of create_product_batch that returns Ok returns: the
\* groups it wrote and linked at a path, each once.
ReturnedStep ==
    (last'.op = "create_product_batch" /\ last'.ok) =>
        LET created == {h \in GroupHashes(dht') \ DOMAIN dht :
                           LinksTo(dht', h) # {}}
        IN /\ Range(last'.records) = created
           /\ \A h \in created : Occurrences(last'.records, h) = 1

\* C29: when create_product_batch returns Ok, the list returned holds one
\* record for each group the call created, written and linked, and no
\* other record.
C29_ReturnsCreatedGroups == [][ReturnedStep]_vars

(***************** C30: the errors of a single-group fetch *****************)

\* The last call fetched one group by its hash.
SingleFetch ==
    last.op \in {"extract_products_from_group",
                 "get_paginated_products_from_group",
                 "recategorize_product_group"}

\* The hash the last call asked, what the store answered to the get, and
\* what the call returned.
FetchedHash ==
    CASE last.op = "extract_products_from_group" -> last.group_hash
      [] last.op = "get_paginated_products_from_group" -> last.params.group_hash
      [] OTHER -> last.input.group_hash

FetchOutcome ==
    IF last.op = "recategorize_product_group" THEN last.fault.get ELSE last.got

FetchReturned ==
    IF last.op = "recategorize_product_group"
    THEN [ok |-> last.ok, error |-> last.error]
    ELSE [ok |-> last.result.ok, error |-> last.result.error]

\* C30: extract_products_from_group, get_paginated_products_from_group
\* and recategorize_product_group return the error "Group not found"
\* when the hash has no record and the error "Failed to deserialize
\* ProductGroup" when the record is no ProductGroup, and in neither
\* case Ok.
C30_SingleFetchErrors ==
    (SingleFetch /\ FetchOutcome # "err") =>
        /\ (FetchOutcome = "none" \/ FetchedHash \notin DOMAIN dht) =>
              FetchReturned = [ok |-> FALSE, error |-> "Group not found"]
        /\ (FetchOutcome = "ok" /\ FetchedHash \in DOMAIN dht
            /\ ~IsCreate(dht, FetchedHash)) =>
              FetchReturned = [ok |-> FALSE,
                               error |-> "Failed to deserialize ProductGroup"]

\* A fetch of the products of a hash whose record is a link.
C30_Witness ==
    /\ last.op = "extract_products_from_group"
    /\ last.got = "ok"
    /\ IsCreateLink(dht, last.group_hash)
    /\ ~last.result.ok
    /\ last.result.error = "Failed to deserialize ProductGroup"

(************** C21: two calls of create_product_batch race ****************)

\* Both calls have returned, and they were for one primary path.
RaceOver ==
    /\ \A c \in Callers : inflight[c].pc = "done"
    /\ \A c1, c2 \in Callers :
          OnlyKey(inflight[c1].products) = OnlyKey(inflight[c2].products)

\* The path the calls were for, as the parameters of a read.
RacePath ==
    LET key == OnlyKey(inflight[CHOOSE c \in Callers : TRUE].products)
    IN [category |-> key_category(key), subcategory |-> key_subcategory(key),
        product_type |-> key_product_type(key)]

\* The read of the first page of the path of the calls.
RaceFirstPage ==
    get_products_by_category(
        dht, [category |-> RacePath.category, subcategory |-> RacePath.subcategory,
              product_type |-> RacePath.product_type, offset |-> 0, limit |-> 1],
        TRUE, NoFetchFault, FALSE)

\* C21: when two calls of create_product_batch for one primary path have
\* run with their store calls interleaved in any way, the records of both
\* groups are in the store, each group has a live link at every one of
\* its paths with its chunk id as the tag, the total_groups of the path
\* counts every group linked at it, and the pages of the path hold each of
\* the two groups once.
C21_RaceLosesNothing ==
    RaceOver =>
        /\ \A c \in Callers : IsProductGroup(dht, inflight[c].hash)
        /\ \A c1, c2 \in Callers :
              c1 # c2 => inflight[c1].hash # inflight[c2].hash
        /\ \A c \in Callers :
              \A p \in Range(group_paths(InflightGroup(c))) :
                  \E i \in LiveLinksAt(dht, path_entry_hash(p)) :
                      /\ dht[i].target = inflight[c].hash
                      /\ dht[i].tag = to_le_bytes(inflight[c].chunk_id)
        /\ RaceFirstPage.ok
        /\ RaceFirstPage.total_groups
              = Cardinality({h \in GroupHashes(dht) :
                                \E i \in LiveLinksAt(dht, path_entry_hash(
                                             Unwrap(base_path(RacePath)))) :
                                    dht[i].target = h})
        /\ \A limit \in 1..2 :
              \A c \in Callers :
                  Occurrences(PagesFrom(dht, RacePath, limit, 0), inflight[c].hash) = 1

\* Both calls read the latest chunk id 0 of a path that held one group and
\* gave their groups the chunk id 1.
C21_Witness ==
    /\ RaceOver
    /\ \A c \in Callers : inflight[c].chunk_id = 1
    /\ \A c \in Callers : GroupOf(dht, inflight[c].hash).chunk_id = 1
    /\ Cardinality({inflight[c].hash : c \in Callers}) = 2
    /\ RaceFirstPage.total_groups = 3

(******************* C31: the tag of a group link **************************)

\* C31: in every store state reached through create_product_group and
\* recategorize_product_group, each group link has a tag of 4 bytes that
\* reads, as a little-endian u32, as the chunk id stored in the group it
\* targets, and the links to one group carry one tag.
C31_TagIsChunkId ==
    \A i \in DOMAIN dht :
        IsCreateLink(dht, i) =>
            /\ Len(dht[i].tag) = 4
            /\ IsProductGroup(dht, dht[i].target)
            /\ chunk_id_of_tag(dht[i].tag) = GroupOf(dht, dht[i].target).chunk_id
            /\ \A j \in LinksTo(dht, dht[i].target) : dht[j].tag = dht[i].tag

\* A recategorized group of a chunk id of three bytes next to the
\* original, which is linked at three paths.
C31_Witness ==
    /\ Recategorized
    /\ GroupOf(dht, last.new_group_hash).chunk_id = 65536
    /\ LinksTo(dht, last.new_group_hash) # {}
    /\ Cardinality(LinksTo(dht, last.input.group_hash)) = 3

(********************* C32: the size of a group ****************************)

\* C32: with every store call succeeding, a call of create_product_batch
\* with n inputs of one primary categorization creates k groups, where
\* 100 * (k - 1) < n <= 100 * k; the j-th of them holds the inputs from
\* 100 * (j - 1) + 1 on, in input order, at least 1 and at most
\* PRODUCTS_PER_GROUP of them.
C32_GroupSizes ==
    /\ \A h \in GroupHashes(dht) :
          /\ Len(GroupOf(dht, h).products) >= 1
          /\ Len(GroupOf(dht, h).products) <= PRODUCTS_PER_GROUP
    /\ last.op = "create_product_batch" =>
          LET n == Len(last.products)
              k == Len(last.all_group_hashes)
          IN /\ PRODUCTS_PER_GROUP * (k - 1) < n
             /\ n <= PRODUCTS_PER_GROUP * k
             /\ \A j \in 1..k :
                   LET products == GroupOf(dht, last.all_group_hashes[j]).products
                       from == PRODUCTS_PER_GROUP * (j - 1)
                   IN /\ Len(products) = IF j < k THEN PRODUCTS_PER_GROUP ELSE n - from
                      /\ \A i \in DOMAIN products :
                            products[i].name = last.products[from + i].product.name
             /\ \A j1, j2 \in 1..k :
                   j1 < j2 => last.all_group_hashes[j1] < last.all_group_hashes[j2]

\* A call of 200 inputs after a call of 100: three full groups.
C32_Witness ==
    /\ last.op = "create_product_batch"
    /\ Len(last.products) = 2 * PRODUCTS_PER_GROUP
    /\ Len(last.all_group_hashes) = 2
    /\ Cardinality(GroupHashes(dht)) = 3
    /\ \A h \in GroupHashes(dht) : Len(GroupOf(dht, h).products) = PRODUCTS_PER_GROUP

(**************** C33: the products of the new group ***********************)

\* What a step of recategorize_product_group that returns Ok writes into
\* the new group. The name of a product of the model stands for its
\* fields other than the three of its categorization.
ProductsMovedStep ==
    (last'.op = "recategorize_product_group" /\ last'.ok) =>
        LET old == GroupOf(dht, last'.input.group_hash).products
            new == GroupOf(dht', last'.new_group_hash).products
        IN /\ Len(new) = Len(old)
           /\ \A i \in DOMAIN old :
                 /\ DOMAIN new[i] = DOMAIN old[i]
                 /\ new[i].name = old[i].name
                 /\ new[i].category = last'.input.new_category
                 /\ new[i].subcategory = last'.input.new_subcategory
                 /\ new[i].product_type = last'.input.new_product_type

\* C33: the group written by recategorize_product_group holds as many
\* products as the original, in the same order, each with the category,
\* subcategory and product type of the new categorization and with its
\* other fields as they were.
C33_ProductsMoved == [][ProductsMovedStep]_vars

\* A group of two products recategorized to a subcategory of another
\* category.
C33_Witness ==
    /\ Recategorized
    /\ Len(GroupOf(dht, last.input.group_hash).products) = 2
    /\ GroupOf(dht, last.input.group_hash).category = "Produce"
    /\ last.input.new_category = "Snacks"
    /\ last.input.new_subcategory # None
    /\ GroupOf(dht, last.new_group_hash).products[2].name = 2
    /\ GroupOf(dht, last.new_group_hash).products[2].category = "Snacks"

(**************** C34: the product total of a page *************************)

\* C34: total_products of get_products_by_category is the number of
\* products of all the groups linked at the path, whatever the offset and
\* the limit of the call.
C34_TotalOfAllGroups ==
    (last.op = "get_products_by_category" /\ last.result.ok) =>
        last.result.total_products = ProductsListed(dht, last.params)

(**************** C35: the products of a batch are conserved ***************)

\* The places of the groups created by the last call at which the i-th
\* input product is stored.
PlacesOf(i) ==
    {pl \in (DOMAIN last.all_group_hashes) \X (1..Len(last.products)) :
        /\ pl[2] <= Len(GroupOf(dht, last.all_group_hashes[pl[1]]).products)
        /\ GroupOf(dht, last.all_group_hashes[pl[1]]).products[pl[2]].name
              = last.products[i].product.name}

\* C35: every input product of create_product_batch is stored in exactly
\* one of the groups the call created or is counted in the failed count,
\* a product with a product type and no subcategory included.
C35_ProductsConserved ==
    last.op = "create_product_batch" =>
        /\ \A i \in DOMAIN last.products : Cardinality(PlacesOf(i)) <= 1
        /\ Cardinality({i \in DOMAIN last.products : PlacesOf(i) # {}})
              + last.failed = Len(last.products)


(**************** C36: a refused empty group writes nothing ****************)

\* A step of create_product_group that fails for its empty product list.
EmptyRefusedStep ==
    (/\ last'.op = "create_product_group"
     /\ ~last'.ok
     /\ last'.error = "Product group is empty") => dht' = dht

\* C36: a call of create_product_group that fails because the product
\* list is empty leaves the store as it was: the call writes no group
\* record and no link.
C36_EmptyGroupWritesNothing == [][EmptyRefusedStep]_vars

(**************** C37: a failed recategorization deletes no path link ******)

\* The live links to group h at the nodes of the paths of its stored
\* categorization, the nodes the reads list its links from.
PathLinksTo(d, h) ==
    {i \in LinksTo(d, h) :
        /\ IsLiveLink(d, i)
        /\ \E p \in LevelPaths(GroupOf(d, h).category, GroupOf(d, h).subcategory,
                               GroupOf(d, h).product_type) :
              d[i].base = path_entry_hash(p)}

\* A step of recategorize_product_group that returns an error.
FailedRecatStep ==
    (/\ last'.op = "recategorize_product_group"
     /\ ~last'.ok
     /\ IsProductGroup(dht, last'.input.group_hash)) =>
        PathLinksTo(dht', last'.input.group_hash)
            = PathLinksTo(dht, last'.input.group_hash)

CartWritten ==
    /\ last.op \in {"replace_private_cart", "add_to_private_cart", "checkout_cart"}
    /\ last.ok

PrivateCartLinks(d) == get_links_of_type(d, agent_initial_pubkey, "AgentToPrivateCart")

\* C38: after calls of replace_private_cart, add_to_private_cart and
\* checkout_cart that each returned Ok, whether or not a deletion of a
\* link failed inside them, the agent has exactly one AgentToPrivateCart
\* link and get_private_cart returns the cart written by the last call.
C38_OneCartLink ==
    CartWritten =>
        /\ Len(PrivateCartLinks(dht)) = 1
        /\ \A now \in Now(dht) :
              get_private_cart_impl(dht, now, NoCartFault).cart = last.cart

(**************** C39: checkout *******************************************)

\* What a step of checkout_cart does: without products it fails and
\* writes nothing; when it returns Ok(hash), hash is a new record, an
\* order of the products of the input with the status "processing",
\* linked from the agent, and the private cart read next, whether the
\* store finds its record or not, has no item.
CheckoutStep ==
    last'.op = "checkout_cart" =>
        /\ (\/ last'.input.cart_products = None
            \/ last'.input.cart_products = Some(<<>>))
              => (~last'.ok /\ dht' = dht)
        /\ last'.ok =>
              /\ last'.hash \notin DOMAIN dht
              /\ IsCreate(dht', last'.hash)
              /\ dht'[last'.hash].entry.entry_type = "CheckedOutCart"
              /\ dht'[last'.hash].entry.status = "processing"
              /\ dht'[last'.hash].entry.products = Unwrap(last'.input.cart_products)
              /\ \E i \in DOMAIN dht' :
                    /\ IsLiveLink(dht', i)
                    /\ dht'[i].base = agent_initial_pubkey
                    /\ dht'[i].link_type = "AgentToCheckedOutCart"
                    /\ dht'[i].target = last'.hash
              /\ \A now \in Now(dht'), outcome \in {"ok", "none"} :
                    LET read == get_private_cart_impl(
                                    dht', now, [NoCartFault EXCEPT !.get = outcome])
                    IN read.ok /\ Unwrap(read.cart).items = <<>>

\* C39: checkout_cart called without cart_products or with an empty list
\* fails and writes nothing; when it succeeds, a CheckedOutCart with the
\* status "processing" is linked from the agent and the private cart of
\* the agent read afterwards is empty.
C39_Checkout == [][CheckoutStep]_vars

\* A checkout that succeeded for an agent whose private cart held an
\* item, on a log where the deletion of a link to a cart had failed.
C39_Witness ==
    /\ last.op = "checkout_cart"
    /\ last.ok
    /\ \E h \in CartEntries(dht) :
          /\ h < last.hash
          /\ dht[h].entry.entry_type = "PrivateCart"
          /\ dht[h].entry.items # <<>>
          /\ \E i \in DOMAIN dht : /\ dht[i].type = "CreateLink"
                                   /\ dht[i].target = h
                                   /\ i < last.hash
    /\ Cardinality({i \in DOMAIN dht : dht[i].type = "DeleteLink"}) >= 2

(**************** C40: returned orders *************************************)

\* The hashes return_to_shopping succeeded on: the link to the updated
\* record is the last write of the call.
ReturnedOrders(d) ==
    {d[u].original : u \in {x \in DOMAIN d :
        /\ d[x].type = "Update"
        /\ \E l \in DOMAIN d : /\ d[l].type = "CreateLink"
                               /\ d[l].link_type = "AgentToCheckedOutCart"
                               /\ d[l].target = x}}

\* Whether record h is record x or an updated record of it.
RECURSIVE IsVersionOf(_, _, _)
IsVersionOf(d, h, x) ==
    \/ h = x
    \/ /\ h \in DOMAIN d
       /\ d[h].type = "Update"
       /\ IsVersionOf(d, d[h].original, x)

\* The last call listed the orders.
OrdersListed == last.op = "get_checked_out_carts" /\ last.result.ok

\* The orders linked from the agent whose status is not "returned".
OpenOrders(d) ==
    {d[l].target : l \in {i \in DOMAIN d :
        /\ IsLiveLink(d, i)
        /\ d[i].base = agent_initial_pubkey
        /\ d[i].link_type = "AgentToCheckedOutCart"
        /\ HasEntry(d, d[i].target)
        /\ d[d[i].target].entry.entry_type = "CheckedOutCart"
        /\ d[d[i].target].entry.status # "returned"}}

\* C40: an order return_to_shopping succeeded on is not in the result of
\* get_checked_out_carts, neither with its own hash nor with the hash of
\* an updated record of it; every other order linked from the agent
\* whose status is not "returned" is in the result when the store finds
\* the records, and the result has the newest order first.
C40_ReturnedOrderGone ==
    OrdersListed =>
        /\ \A x \in ReturnedOrders(dht) :
           \A k \in DOMAIN last.result.carts :
              ~IsVersionOf(dht, last.result.carts[k].cart_hash, x)
        /\ last.fault.get = "ok" =>
              {last.result.carts[k].cart_hash : k \in DOMAIN last.result.carts}
                  = OpenOrders(dht)
        /\ \A k \in DOMAIN last.result.carts :
              /\ last.result.carts[k].cart.status # "returned"
              /\ k > 1 => last.result.carts[k - 1].cart.created_at
                             >= last.result.carts[k].cart.created_at

\* Two orders of different times, the older one returned after a first
\* return_to_shopping on it had failed, and the list holds the other.
C40_Witness ==
    /\ OrdersListed
    /\ Len(last.result.carts) = 1
    /\ \E x \in ReturnedOrders(dht) :
          /\ dht[x].type = "Create"
          /\ x < last.result.carts[1].cart_hash
          /\ dht[x].entry.created_at < last.result.carts[1].cart.created_at
          /\ Cardinality({u \in DOMAIN dht :
                             dht[u].type = "Update" /\ dht[u].original = x}) = 2

====
